---- MODULE Spec2Model ----
(***************************************************************************)
(* tsconfig-includes: enumeration of the files a TypeScript project and    *)
(* its internal dependencies compile, grouped by package.                  *)
(*                                                                         *)
(* Strings are sequences of one-character strings, so that suffix tests    *)
(* (str::ends_with) and splitting (str::rsplit, str::lines) are computed.  *)
(* A path is a sequence of components, each component a string; the root   *)
(* directory of an absolute path is the component "/" (std::path           *)
(* Component::RootDir).                                                    *)
(***************************************************************************)
EXTENDS Integers, Sequences, FiniteSets, TLC

\* ------------------------------------------------------------------------
\* Strings
\* ------------------------------------------------------------------------

\* The characters the model's file names and globs are written with, in
\* byte order.
Alphabet == <<"*", "-", ".", "/", "_", "a", "b", "c", "d", "e", "f", "g", "h", "i", "j",
              "k", "l", "m", "n", "o", "p", "r", "s", "t", "u", "w", "x", "z">>

CharCode(c) == CHOOSE i \in 1..Len(Alphabet) : Alphabet[i] = c

\* str::ends_with
StrEndsWith(s, suffix) ==
    /\ Len(suffix) <= Len(s)
    /\ SubSeq(s, Len(s) - Len(suffix) + 1, Len(s)) = suffix

\* str::contains(char)
StrContains(s, c) == \E i \in 1..Len(s) : s[i] = c

\* Byte-wise lexicographic order of strings (Ord for OsStr): negative, zero
\* or positive.
RECURSIVE StrCmp(_, _)
StrCmp(s, t) ==
    IF s = <<>> /\ t = <<>> THEN 0
    ELSE IF s = <<>> THEN -1
    ELSE IF t = <<>> THEN 1
    ELSE IF Head(s) = Head(t) THEN StrCmp(Tail(s), Tail(t))
    ELSE CharCode(Head(s)) - CharCode(Head(t))

\* ------------------------------------------------------------------------
\* Paths (std::path)
\* ------------------------------------------------------------------------

RootDir == <<"/">>

\* Path::is_absolute
IsAbsolute(p) == Len(p) > 0 /\ p[1] = RootDir

\* Path::join: an absolute right-hand side replaces the left-hand side.
Join(p, q) == IF IsAbsolute(q) THEN q ELSE p \o q

\* Path::parent: the path without its last component; none ("None") for the
\* root directory and for the empty path.
HasParent(p) == Len(p) > 0 /\ p # <<RootDir>>

Parent(p) == SubSeq(p, 1, Len(p) - 1)

\* Path::ancestors: the path itself, then parent after parent.
Ancestors(p) ==
    { SubSeq(p, 1, k) : k \in (IF IsAbsolute(p) THEN 1 ELSE 0)..Len(p) }

\* Path::ends_with: whole components, compared from the end.
PathEndsWith(p, child) ==
    /\ Len(child) <= Len(p)
    /\ SubSeq(p, Len(p) - Len(child) + 1, Len(p)) = child

\* Path::starts_with
PathStartsWith(p, base) ==
    /\ Len(base) <= Len(p)
    /\ SubSeq(p, 1, Len(base)) = base

\* Path::strip_prefix, where it succeeds (PathStartsWith).
StripPrefix(p, base) == SubSeq(p, Len(base) + 1, Len(p))

\* Path::to_str: the components joined by the separator.
RECURSIVE PathStr(_)
PathStr(p) ==
    IF p = <<>> THEN <<>>
    ELSE IF Head(p) = RootDir
         THEN IF Len(p) = 1 THEN <<"/">>
              ELSE <<"/">> \o PathStr(Tail(p))
    ELSE IF Len(p) = 1 THEN Head(p)
    ELSE Head(p) \o <<"/">> \o PathStr(Tail(p))

\* The characters of s up to its first separator, and what follows it.
RECURSIVE UpToSep(_)
UpToSep(s) ==
    IF s = <<>> \/ Head(s) = "/" THEN <<>>
    ELSE <<Head(s)>> \o UpToSep(Tail(s))

RECURSIVE SplitSep(_)
SplitSep(s) ==
    IF s = <<>> THEN <<>>
    ELSE IF Head(s) = "/" THEN SplitSep(Tail(s))
    ELSE LET c == UpToSep(s)
         IN  <<c>> \o SplitSep(SubSeq(s, Len(c) + 1, Len(s)))

\* PathBuf::from(&str): a leading separator is the root directory, runs of
\* separators delimit the components.
PathFromStr(s) ==
    IF s # <<>> /\ Head(s) = "/" THEN <<RootDir>> \o SplitSep(s)
    ELSE SplitSep(s)

\* Ord for Path: component after component, each compared as a string.
RECURSIVE PathCmp(_, _)
PathCmp(p, q) ==
    IF p = <<>> /\ q = <<>> THEN 0
    ELSE IF p = <<>> THEN -1
    ELSE IF q = <<>> THEN 1
    ELSE IF Head(p) = Head(q) THEN PathCmp(Tail(p), Tail(q))
    ELSE StrCmp(Head(p), Head(q))

\* sort_unstable on a Vec<PathBuf>: the sorted permutation (insertion into
\* a sorted prefix; equal elements are kept, nothing is removed).
RECURSIVE InsertSorted(_, _)
InsertSorted(p, sorted) ==
    IF sorted = <<>> THEN <<p>>
    ELSE IF PathCmp(p, Head(sorted)) <= 0 THEN <<p>> \o sorted
    ELSE <<Head(sorted)>> \o InsertSorted(p, Tail(sorted))

RECURSIVE SortPaths(_)
SortPaths(ps) ==
    IF ps = <<>> THEN <<>>
    ELSE InsertSorted(Head(ps), SortPaths(Tail(ps)))

\* ------------------------------------------------------------------------
\* path.rs
\* ------------------------------------------------------------------------

is_glob(string) == StrContains(string, "*")

\* str::rsplit('*').next(): the text after the last '*' (the whole string
\* when it holds none).
RECURSIVE AfterLastStar(_)
AfterLastStar(s) ==
    IF s = <<>> THEN <<>>
    ELSE IF s[Len(s)] = "*" THEN <<>>
    ELSE AfterLastStar(SubSeq(s, 1, Len(s) - 1)) \o <<s[Len(s)]>>

\* A mutation of glob_file_extension: the text after the first '*'.
glob_file_extension_after_first_star(glob) ==
    IF glob # <<>> /\ glob[Len(glob)] = "*" THEN <<>>
    ELSE IF ~StrContains(glob, "*") THEN <<glob>>
    ELSE <<SubSeq(glob,
                  (CHOOSE i \in 1..Len(glob) :
                       glob[i] = "*" /\ \A j \in 1..(i - 1) : glob[j] # "*") + 1,
                  Len(glob))>>

\* Option<String> as a sequence of at most one string.
glob_file_extension(glob) ==
    IF glob # <<>> /\ glob[Len(glob)] = "*" THEN <<>>
    ELSE <<AfterLastStar(glob)>>

\* A mutation of is_monorepo_file: every file passes.
is_monorepo_file_anywhere(monorepo_root, file) == TRUE

is_monorepo_file(monorepo_root, file) ==
    \E ancestor \in Ancestors(file) : PathEndsWith(ancestor, monorepo_root)

\* A mutation of remove_relative_path_prefix_from_absolute_path: the last
\* component of the prefix is left on the result.
remove_prefix_but_its_last_component(prefix, absolute_path) ==
    LET matching == { a \in Ancestors(absolute_path) : PathEndsWith(a, prefix) }
    IN  IF matching = {}
        THEN [ok |-> FALSE, kind |-> "PrefixNotFound", prefix |-> prefix,
              absolute_path |-> absolute_path]
        ELSE LET ancestor == CHOOSE a \in matching :
                                 \A b \in matching : Len(b) <= Len(a)
             IN  [ok |-> TRUE,
                  path |-> StripPrefix(absolute_path, Parent(ancestor))]

\* A mutation of remove_relative_path_prefix_from_absolute_path: the
\* prefix is looked for at the start of the path alone.
remove_prefix_from_the_start(prefix, absolute_path) ==
    IF PathStartsWith(absolute_path, prefix)
    THEN [ok |-> TRUE, path |-> StripPrefix(absolute_path, prefix)]
    ELSE [ok |-> FALSE, kind |-> "PrefixNotFound", prefix |-> prefix,
          absolute_path |-> absolute_path]

\* The first ancestor, from the path itself upwards, that ends with the
\* prefix is stripped; without one the result is the PrefixNotFound error.
remove_relative_path_prefix_from_absolute_path(prefix, absolute_path) ==
    LET matching == { a \in Ancestors(absolute_path) : PathEndsWith(a, prefix) }
    IN  IF matching = {}
        THEN [ok |-> FALSE, kind |-> "PrefixNotFound", prefix |-> prefix,
              absolute_path |-> absolute_path]
        ELSE LET ancestor == CHOOSE a \in matching :
                                 \A b \in matching : Len(b) <= Len(a)
             IN  [ok |-> TRUE, path |-> StripPrefix(absolute_path, ancestor)]

node_modules == <<"n", "o", "d", "e", "_", "m", "o", "d", "u", "l", "e", "s">>

\* Imported by exact.rs from path.rs: a path with a node_modules component.
is_child_of_node_modules(path) ==
    \E i \in 1..Len(path) : path[i] = node_modules

\* ------------------------------------------------------------------------
\* io.rs
\* ------------------------------------------------------------------------

\* A file of the disk: absent, unreadable, not JSON ("malformed"), or a
\* JSON object (a record of the keys it holds).
FileAt(files, path) ==
    IF path \in DOMAIN files THEN files[path] ELSE [state |-> "absent"]

\* ------------------------------------------------------------------------
\* typescript_package.rs
\* ------------------------------------------------------------------------

tsconfig_json == <<"t", "s", "c", "o", "n", "f", "i", "g", ".", "j", "s", "o", "n">>
package_json == <<"p", "a", "c", "k", "a", "g", "e", ".", "j", "s", "o", "n">>

\* #[derive(Deserialize)] struct PackageManifest { name }
DeserializePackageManifest(json) ==
    IF "name" \in DOMAIN json
    THEN [ok |-> TRUE, value |-> [name |-> json.name]]
    ELSE [ok |-> FALSE]

\* TryFrom<TypescriptConfigFile> for PackageManifestFile
PackageManifestFile_from_tsconfig(tsconfig_file) ==
    IF HasParent(tsconfig_file)
    THEN [ok |-> TRUE, value |-> Join(Parent(tsconfig_file), <<package_json>>)]
    ELSE [ok |-> FALSE, kind |-> "PackageInMonorepoRoot", path |-> tsconfig_file]

\* TryFrom<PackageManifestFile> for TypescriptConfigFile
TypescriptConfigFile_from_manifest(package_manifest_file) ==
    IF HasParent(package_manifest_file)
    THEN [ok |-> TRUE,
          value |-> Join(Parent(package_manifest_file), <<tsconfig_json>>)]
    ELSE [ok |-> FALSE, kind |-> "PackageInMonorepoRoot",
          path |-> package_manifest_file]

\* TypescriptConfigFile::package_directory
package_directory(tsconfig_file, monorepo_root) ==
    LET tsconfig_path == Join(monorepo_root, tsconfig_file)
    IN  IF HasParent(tsconfig_path)
        THEN [ok |-> TRUE, value |-> Parent(tsconfig_path)]
        ELSE [ok |-> FALSE, kind |-> "PackageInMonorepoRoot",
              path |-> tsconfig_path]

\* ------------------------------------------------------------------------
\* estimate.rs: configuration and extension whitelist
\* ------------------------------------------------------------------------

ext_ts == <<".", "t", "s">>
ext_tsx == <<".", "t", "s", "x">>
ext_d_ts == <<".", "d", ".", "t", "s">>
ext_js == <<".", "j", "s">>
ext_jsx == <<".", "j", "s", "x">>
ext_json == <<".", "j", "s", "o", "n">>

\* A mutation of DeserializeCompilerOptions: an absent flag counts as set.
DeserializeCompilerOptions_default_true(json) ==
    [allow_js |-> IF "allowJs" \in DOMAIN json THEN json.allowJs ELSE TRUE,
     resolve_json_module |->
         IF "resolveJsonModule" \in DOMAIN json
         THEN json.resolveJsonModule ELSE TRUE]

\* #[derive(Default, Deserialize)] struct CompilerOptions: absent flags
\* default to false.
DeserializeCompilerOptions(json) ==
    [allow_js |-> IF "allowJs" \in DOMAIN json THEN json.allowJs ELSE FALSE,
     resolve_json_module |->
         IF "resolveJsonModule" \in DOMAIN json
         THEN json.resolveJsonModule ELSE FALSE]

\* A mutation of DeserializeTypescriptConfig: a document without include
\* decodes with an empty include list.
DeserializeTypescriptConfig_default_include(json) ==
    [ok |-> TRUE,
     value |->
         [compiler_options |->
              IF "compilerOptions" \in DOMAIN json
              THEN DeserializeCompilerOptions(json.compilerOptions)
              ELSE [allow_js |-> FALSE, resolve_json_module |-> FALSE],
          include |-> IF "include" \in DOMAIN json THEN json.include ELSE <<>>]]

\* #[derive(Deserialize)] struct TypescriptConfig: compilerOptions defaults,
\* include is required.
DeserializeTypescriptConfig(json) ==
    IF "include" \notin DOMAIN json THEN [ok |-> FALSE]
    ELSE [ok |-> TRUE,
          value |->
              [compiler_options |->
                   IF "compilerOptions" \in DOMAIN json
                   THEN DeserializeCompilerOptions(json.compilerOptions)
                   ELSE [allow_js |-> FALSE, resolve_json_module |-> FALSE],
               include |-> json.include]]

\* serde_json::from_str::<T>: the value, or no value when the document is
\* no T.
Deserialize(T, json) ==
    IF T = "PackageManifest" THEN DeserializePackageManifest(json)
    ELSE DeserializeTypescriptConfig(json)

\* io.rs, read_json_from_file::<T>: open, read, then decode as T.
read_json_from_file(path, file, T) ==
    IF file.state = "absent"
    THEN [ok |-> FALSE, kind |-> "Open", path |-> path]
    ELSE IF file.state = "unreadable"
    THEN [ok |-> FALSE, kind |-> "Read", path |-> path]
    ELSE IF file.state = "malformed" \/ ~Deserialize(T, file.value).ok
    THEN [ok |-> FALSE, kind |-> "Parse", path |-> path]
    ELSE [ok |-> TRUE, value |-> Deserialize(T, file.value).value]

\* A mutation of whitelisted_file_extensions: as if allowJs were always set.
whitelisted_file_extensions_always_js(tsconfig) ==
    LET whitelist == {ext_ts, ext_tsx, ext_d_ts, ext_js, ext_jsx}
        glob_extensions ==
            { glob_file_extension(tsconfig.include[i])[1] :
                i \in { j \in 1..Len(tsconfig.include) :
                          /\ is_glob(tsconfig.include[j])
                          /\ glob_file_extension(tsconfig.include[j]) # <<>> } }
    IN  { extension \in whitelist \cup glob_extensions :
            \/ ~StrEndsWith(extension, ext_json)
            \/ tsconfig.compiler_options.resolve_json_module }

\* TypescriptConfig::whitelisted_file_extensions
whitelisted_file_extensions(tsconfig) ==
    LET whitelist ==
            {ext_ts, ext_tsx, ext_d_ts}
            \cup (IF tsconfig.compiler_options.allow_js
                  THEN {ext_js, ext_jsx} ELSE {})
        glob_extensions ==
            { glob_file_extension(tsconfig.include[i])[1] :
                i \in { j \in 1..Len(tsconfig.include) :
                          /\ is_glob(tsconfig.include[j])
                          /\ glob_file_extension(tsconfig.include[j]) # <<>> } }
    IN  { extension \in whitelist \cup glob_extensions :
            \/ ~StrEndsWith(extension, ext_json)
            \/ tsconfig.compiler_options.resolve_json_module }

\* The closure is_whitelisted_file_extension of tsconfig_includes_estimate:
\* a suffix test on the whole path string.
is_whitelisted_file_extension(whitelisted, path) ==
    \E extension \in whitelisted : StrEndsWith(PathStr(path), extension)

\* ------------------------------------------------------------------------
\* estimate.rs: the glob walk (globwalk::GlobWalkerBuilder::from_patterns)
\* ------------------------------------------------------------------------

\* One path component against one pattern component: '*' stands for any
\* run of characters of the component.
RECURSIVE SegMatch(_, _)
SegMatch(pat, name) ==
    IF pat = <<>> THEN name = <<>>
    ELSE IF Head(pat) = "*"
    THEN \/ SegMatch(Tail(pat), name)
         \/ name # <<>> /\ SegMatch(pat, Tail(name))
    ELSE /\ name # <<>>
         /\ Head(pat) = Head(name)
         /\ SegMatch(Tail(pat), Tail(name))

\* A path against the components of a pattern: the component "**" stands
\* for any run of directories.
RECURSIVE CompsMatch(_, _)
CompsMatch(pats, path) ==
    IF pats = <<>> THEN path = <<>>
    ELSE IF Head(pats) = <<"*", "*">>
    THEN \/ CompsMatch(Tail(pats), path)
         \/ path # <<>> /\ CompsMatch(pats, Tail(path))
    ELSE /\ path # <<>>
         /\ SegMatch(Head(pats), Head(path))
         /\ CompsMatch(Tail(pats), Tail(path))

\* A pattern with a separator is anchored at the walked directory, one
\* without matches at any depth.
GlobMatch(pattern, path) ==
    IF StrContains(pattern, "/")
    THEN CompsMatch(SplitSep(pattern), path)
    ELSE CompsMatch(<<<<"*", "*">>, pattern>>, path)

\* The walker's items over the entries of the directory in directory
\* order: an error of the walk is passed on, a regular file is yielded
\* with the walked directory in front when a pattern matches it.
RECURSIVE GlobWalk_dropping_errors(_, _, _)
GlobWalk_dropping_errors(base, patterns, entries) ==
    IF entries = <<>> THEN <<>>
    ELSE LET e == Head(entries)
             rest == GlobWalk_dropping_errors(base, patterns, Tail(entries))
         IN  IF e.ok /\ \E i \in 1..Len(patterns) : GlobMatch(patterns[i], e.path)
             THEN <<[ok |-> TRUE, path |-> base \o e.path]>> \o rest
             ELSE rest

RECURSIVE GlobWalk(_, _, _)
GlobWalk(base, patterns, entries) ==
    IF entries = <<>> THEN <<>>
    ELSE LET e == Head(entries)
             rest == GlobWalk(base, patterns, Tail(entries))
         IN  IF ~e.ok THEN <<e>> \o rest
             ELSE IF \E i \in 1..Len(patterns) : GlobMatch(patterns[i], e.path)
             THEN <<[ok |-> TRUE, path |-> base \o e.path]>> \o rest
             ELSE rest

\* ------------------------------------------------------------------------
\* The environment: working directory and disk
\* ------------------------------------------------------------------------

Cwd == <<RootDir, <<"w", "o", "r", "k">>>>

\* The absolute path the operating system resolves a path to.
Absolute(path) == IF IsAbsolute(path) THEN path ELSE Cwd \o path

\* A mutation of canonicalize: the path is left as it was given.
canonicalize_as_given(path, d) == [ok |-> TRUE, value |-> path]

\* std::fs::canonicalize (the model's tree holds no symbolic link).
canonicalize(path, d) ==
    IF d.realpath THEN [ok |-> TRUE, value |-> Absolute(path)]
    ELSE [ok |-> FALSE]

\* The entries of a directory of the disk, in directory order.
DirEntries(d, dir) ==
    IF Absolute(dir) \in DOMAIN d.dirs THEN d.dirs[Absolute(dir)] ELSE <<>>

\* ------------------------------------------------------------------------
\* estimate.rs: tsconfig_includes_estimate
\* ------------------------------------------------------------------------

\* The iterator the function returns, item by item: Ok(path), Err(walk
\* error), or the panic of the expect on strip_prefix, which the item
\* raises when it is pulled.
EstimateItem(monorepo_root, maybe_dir_entry) ==
    IF ~maybe_dir_entry.ok THEN [tag |-> "Err", kind |-> "Walk"]
    ELSE IF PathStartsWith(maybe_dir_entry.path, monorepo_root)
    THEN [tag |-> "Ok",
          path |-> StripPrefix(maybe_dir_entry.path, monorepo_root)]
    ELSE [tag |-> "Panic"]

\* A mutation of tsconfig_includes_estimate: the suffix of an include
\* pattern whitelists the files that this pattern matches, and no others.
tsconfig_includes_estimate_suffix_per_glob(monorepo_root, tsconfig_file, d) ==
    IF ~HasParent(tsconfig_file)
    THEN [ok |-> FALSE, kind |-> "PackageInMonorepoRoot", path |-> tsconfig_file]
    ELSE
    LET package_dir == Parent(tsconfig_file)
        tsconfig == read_json_from_file(tsconfig_file,
                                        FileAt(d.files, Absolute(tsconfig_file)),
                                        "TypescriptConfig")
    IN  IF ~tsconfig.ok
        THEN [ok |-> FALSE, kind |-> "BuildWalkerIO", inner |-> tsconfig]
        ELSE
        LET include == tsconfig.value.include
            walked == GlobWalk(package_dir, include, DirEntries(d, package_dir))
            WhitelistOf(i) ==
                whitelisted_file_extensions(
                    [tsconfig.value EXCEPT !.include = <<include[i]>>])
            Keep(maybe_dir_entry) ==
                IF maybe_dir_entry.ok
                THEN /\ is_monorepo_file(monorepo_root, maybe_dir_entry.path)
                     /\ \E i \in 1..Len(include) :
                            /\ GlobMatch(include[i],
                                         StripPrefix(maybe_dir_entry.path,
                                                     package_dir))
                            /\ is_whitelisted_file_extension(
                                   WhitelistOf(i), maybe_dir_entry.path)
                ELSE TRUE
            kept == SelectSeq(walked, Keep)
        IN  [ok |-> TRUE,
             items |-> [i \in 1..Len(kept) |->
                           EstimateItem(monorepo_root, kept[i])]]

tsconfig_includes_estimate(monorepo_root, tsconfig_file, d) ==
    IF ~HasParent(tsconfig_file)
    THEN [ok |-> FALSE, kind |-> "PackageInMonorepoRoot", path |-> tsconfig_file]
    ELSE
    LET package_dir == Parent(tsconfig_file)
        tsconfig == read_json_from_file(tsconfig_file,
                                        FileAt(d.files, Absolute(tsconfig_file)),
                                        "TypescriptConfig")
    IN  IF ~tsconfig.ok
        THEN [ok |-> FALSE, kind |-> "BuildWalkerIO", inner |-> tsconfig]
        ELSE
        LET whitelisted == whitelisted_file_extensions(tsconfig.value)
            walked == GlobWalk(package_dir, tsconfig.value.include,
                               DirEntries(d, package_dir))
            Keep(maybe_dir_entry) ==
                IF maybe_dir_entry.ok
                THEN /\ is_monorepo_file(monorepo_root, maybe_dir_entry.path)
                     /\ is_whitelisted_file_extension(whitelisted,
                                                      maybe_dir_entry.path)
                ELSE TRUE
            kept == SelectSeq(walked, Keep)
        IN  [ok |-> TRUE,
             items |-> [i \in 1..Len(kept) |->
                           EstimateItem(monorepo_root, kept[i])]]

\* collect::<Result<Vec<_>, _>>() over the items: the first item that is
\* not Ok decides (an error returns, a panic unwinds).
FirstFailure(items) ==
    LET bad == { i \in 1..Len(items) : items[i].tag # "Ok" }
    IN  IF bad = {} THEN 0
        ELSE CHOOSE i \in bad : \A j \in bad : i <= j

\* ------------------------------------------------------------------------
\* exact.rs: tsconfig_includes_exact
\* ------------------------------------------------------------------------

\* str::lines: the text between line feeds; a final line feed ends the
\* last line and starts no new one.
RECURSIVE UpToNewline(_)
UpToNewline(s) ==
    IF s = <<>> \/ Head(s) = "\n" THEN <<>>
    ELSE <<Head(s)>> \o UpToNewline(Tail(s))

RECURSIVE Lines(_)
Lines(s) ==
    IF s = <<>> THEN <<>>
    ELSE LET line == UpToNewline(s)
         IN  <<line>> \o Lines(SubSeq(s, Len(line) + 2, Len(s)))

\* The run of `tsc --listFilesOnly --project <dir>`.
TscRun(d, dir) ==
    IF Absolute(dir) \in DOMAIN d.tsc THEN d.tsc[Absolute(dir)]
    ELSE [exits |-> TRUE, spawned |-> TRUE, code |-> 1, utf8 |-> TRUE, stdout |-> <<>>,
          stderr |-> "error TS5058"]

\* A mutation of compiler_output: the standard output is decoded before
\* the exit status is looked at.
compiler_output_decode_first(child, tsconfig) ==
    IF ~child.utf8
    THEN [ok |-> FALSE, kind |-> "InvalidUtf8", steps |-> <<"decode">>]
    ELSE IF child.code # 0
    THEN [ok |-> FALSE, kind |-> "TypescriptCompiler",
          command |-> tsconfig, error |-> child.stderr,
          steps |-> <<"decode", "status">>]
    ELSE [ok |-> TRUE, stdout |-> child.stdout,
          steps |-> <<"decode", "status">>]

\* What the enumerator makes of the finished compiler process: the check
\* of child.status.code(), then String::from_utf8(child.stdout)?.
compiler_output(child, tsconfig) ==
    IF child.code # 0
    THEN [ok |-> FALSE, kind |-> "TypescriptCompiler",
          command |-> tsconfig, error |-> child.stderr,
          steps |-> <<"status">>]
    ELSE IF ~child.utf8
    THEN [ok |-> FALSE, kind |-> "InvalidUtf8",
          steps |-> <<"status", "decode">>]
    ELSE [ok |-> TRUE, stdout |-> child.stdout,
          steps |-> <<"status", "decode">>]

\* The steps the enumerator has taken are kept with its result, in the
\* order in which it took them.
tsconfig_includes_exact(monorepo_root, tsconfig, d) ==
    LET canonical == canonicalize(monorepo_root, d)
    IN  IF ~canonical.ok
        THEN [ok |-> FALSE, kind |-> "Canonicalize", path |-> monorepo_root,
              steps |-> <<"canonicalize">>]
        ELSE
        LET root == canonical.value
            dir == package_directory(tsconfig, root)
        IN  IF ~dir.ok
            THEN [ok |-> FALSE, kind |-> "PackageInMonorepoRoot",
                  path |-> dir.path,
                  steps |-> <<"canonicalize", "package_directory">>]
            ELSE
            LET child == TscRun(d, dir.value)
                spawn == <<"canonicalize", "package_directory", "spawn">>
                output == compiler_output(child, tsconfig)
            IN  IF ~child.spawned
                THEN [ok |-> FALSE, kind |-> "Command", steps |-> spawn]
                ELSE IF ~output.ok
                THEN [output EXCEPT !.steps = spawn \o @]
                ELSE
                LET NonEmpty(line) == line # <<>>
                    paths == LET ls == SelectSeq(Lines(output.stdout), NonEmpty)
                             IN  [i \in 1..Len(ls) |-> PathFromStr(ls[i])]
                    InRoot(path) == is_monorepo_file(root, path)
                    NotVendored(path) == ~is_child_of_node_modules(path)
                    kept == SelectSeq(SelectSeq(paths, InRoot), NotVendored)
                    stripped ==
                        [i \in 1..Len(kept) |->
                            remove_relative_path_prefix_from_absolute_path(
                                root, kept[i])]
                    bad == { i \in 1..Len(stripped) : ~stripped[i].ok }
                IN  IF bad # {}
                    THEN [ok |-> FALSE, kind |-> "StripPrefix",
                          inner |-> stripped[CHOOSE i \in bad :
                                                \A j \in bad : i <= j],
                          steps |-> spawn \o output.steps \o <<"filter">>]
                    ELSE [ok |-> TRUE,
                          files |-> [i \in 1..Len(stripped) |->
                                        stripped[i].path],
                          steps |-> spawn \o output.steps \o <<"filter">>]

\* ------------------------------------------------------------------------
\* tsconfig_includes_by_package_name: the dependency closure
\* ------------------------------------------------------------------------

\* PackageManifest::transitive_internal_dependency_package_names_exclusive
\* of the manifest graph: every package reached over one or more
\* internal-dependency edges, the package itself left out.
\* A mutation of Reach: the direct dependencies only.
ReachDirect(manifests, frontier, seen) == frontier

RECURSIVE Reach(_, _, _)
Reach(manifests, frontier, seen) ==
    IF frontier = {} THEN seen
    ELSE LET next == UNION { manifests[n].dependencies : n \in frontier }
         IN  Reach(manifests, next \ (seen \cup frontier), seen \cup frontier)

transitive_internal_dependency_package_names_exclusive(manifests, name) ==
    Reach(manifests, manifests[name].dependencies, {}) \ {name}

\* A mutation of transitive_internal_dependencies_inclusive: the target
\* package is not chained onto its dependencies.
transitive_internal_dependencies_without_target(manifests, name) ==
    transitive_internal_dependency_package_names_exclusive(manifests, name)

\* The exclusive dependencies with .chain(iter::once(package_manifest)):
\* inclusive of the target package.
transitive_internal_dependencies_inclusive(manifests, name) ==
    transitive_internal_dependency_package_names_exclusive(manifests, name)
    \cup {name}

\* estimate.rs: the closure of one requested tsconfig file.
estimate_request(monorepo_root, tsconfig_file, manifests, d) ==
    IF ~HasParent(tsconfig_file) THEN [tag |-> "Panic"]
    ELSE
    LET package_manifest_file ==
            Join(monorepo_root, Join(Parent(tsconfig_file), <<package_json>>))
        manifest == read_json_from_file(
                        package_manifest_file,
                        FileAt(d.files, Absolute(package_manifest_file)),
                        "PackageManifest")
    IN  IF ~manifest.ok
        THEN [tag |-> "Err", kind |-> "FromFile", inner |-> manifest]
        ELSE IF manifest.value.name \notin DOMAIN manifests
        THEN [tag |-> "Panic"]
        ELSE
        LET inclusive ==
                transitive_internal_dependencies_inclusive(
                    manifests, manifest.value.name)
        IN  IF \E n \in inclusive : ~HasParent(manifests[n].path)
            THEN [tag |-> "Panic"]
            ELSE [tag |-> "Ok",
                  packages |->
                      { [scoped_package_name |-> n,
                         tsconfig_file |->
                             Join(Parent(manifests[n].path), <<tsconfig_json>>)] :
                        n \in inclusive }]

\* exact.rs: the closure of one requested tsconfig file.
exact_request(monorepo_root, requested, manifests, d) ==
    LET tsconfig_file == Join(monorepo_root, requested)
        manifest_file == PackageManifestFile_from_tsconfig(tsconfig_file)
    IN  IF ~manifest_file.ok
        THEN [tag |-> "Err", kind |-> "PackageInMonorepoRoot",
              path |-> manifest_file.path]
        ELSE
        LET manifest == read_json_from_file(
                            manifest_file.value,
                            FileAt(d.files, Absolute(manifest_file.value)),
                            "PackageManifest")
        IN  IF ~manifest.ok
            THEN [tag |-> "Err", kind |-> "FromFile", inner |-> manifest]
            ELSE IF manifest.value.name \notin DOMAIN manifests
            THEN [tag |-> "Panic"]
            ELSE
            LET inclusive ==
                    transitive_internal_dependencies_inclusive(
                        manifests, manifest.value.name)
                Config(n) == TypescriptConfigFile_from_manifest(manifests[n].path)
                bad == { n \in inclusive : ~Config(n).ok }
            IN  IF bad # {}
                THEN [tag |-> "Err", kind |-> "PackageInMonorepoRoot",
                      path |-> Config(CHOOSE n \in bad : TRUE).path]
                ELSE [tag |-> "Ok",
                      packages |->
                          { [scoped_package_name |-> n,
                             tsconfig_file |-> Config(n).value] :
                            n \in inclusive }]

\* A mutation of Flatten: the packages are kept per request, as a list
\* would keep them, instead of once in a set.
FlattenPerRequest(results) ==
    UNION { { [scoped_package_name |-> p.scoped_package_name,
               tsconfig_file |-> p.tsconfig_file,
               request |-> i] : p \in results[i].packages } :
            i \in 1..Len(results) }

\* A mutation of Flatten: only the first request's packages are kept.
FlattenFirstOnly(results) ==
    IF results = <<>> THEN {} ELSE results[1].packages

\* A mutation of Flatten: only the last request's packages are kept.
FlattenLastOnly(results) ==
    IF results = <<>> THEN {} ELSE results[Len(results)].packages

\* .into_iter().flatten().collect::<HashSet<_>>()
Flatten(results) ==
    UNION { results[i].packages : i \in 1..Len(results) }

\* A mutation of resolve_closure: a request that fails to resolve is left
\* out and the call goes on with the others.
resolve_closure_skipping_failures(calculation_type, monorepo_root, files, manifests, d) ==
    LET results ==
            [i \in 1..Len(files) |->
                IF calculation_type = "Estimate"
                THEN estimate_request(monorepo_root, files[i], manifests, d)
                ELSE exact_request(monorepo_root, files[i], manifests, d)]
        Succeeded(r) == r.tag = "Ok"
    IN  [tag |-> "Ok", packages |-> Flatten(SelectSeq(results, Succeeded))]

\* The set transitive_internal_dependency_tsconfigs_inclusive_to_enumerate:
\* the requests are resolved in order, the first that fails ends the call.
resolve_closure(calculation_type, monorepo_root, files, manifests, d) ==
    LET results ==
            [i \in 1..Len(files) |->
                IF calculation_type = "Estimate"
                THEN estimate_request(monorepo_root, files[i], manifests, d)
                ELSE exact_request(monorepo_root, files[i], manifests, d)]
        failure == FirstFailure(results)
    IN  IF failure # 0 THEN results[failure]
        ELSE [tag |-> "Ok", packages |-> Flatten(results)]

\* ------------------------------------------------------------------------
\* tsconfig_includes_by_package_name: the per-package work of the parallel
\* map
\* ------------------------------------------------------------------------

\* included_files.sort_unstable()
SortedFiles(files) == SortPaths(files)

estimate_worker(monorepo_root, package, d) ==
    LET tsconfig == Join(monorepo_root, package.tsconfig_file)
        walker == tsconfig_includes_estimate(monorepo_root, tsconfig, d)
    IN  IF ~walker.ok
        THEN [tag |-> "Err",
              kind |-> IF walker.kind = "PackageInMonorepoRoot"
                       THEN "PackageInMonorepoRoot" ELSE "BuildWalker"]
        ELSE
        LET failure == FirstFailure(walker.items)
        IN  IF failure # 0
            THEN IF walker.items[failure].tag = "Panic"
                 THEN [tag |-> "Panic"]
                 ELSE [tag |-> "Err", kind |-> "Walk"]
            ELSE [tag |-> "Ok",
                  files |-> SortedFiles([i \in 1..Len(walker.items) |->
                                            walker.items[i].path])]

exact_worker(monorepo_root, package, d) ==
    LET included == tsconfig_includes_exact(monorepo_root,
                                            package.tsconfig_file, d)
    IN  IF ~included.ok
        THEN [tag |-> "Err", kind |-> "Enumerate", inner |-> included.kind]
        ELSE [tag |-> "Ok", files |-> SortedFiles(included.files)]

worker(calculation_type, monorepo_root, package, d) ==
    IF calculation_type = "Estimate"
    THEN estimate_worker(monorepo_root, package, d)
    ELSE exact_worker(monorepo_root, package, d)

\* ------------------------------------------------------------------------
\* lib.rs: tsconfig_includes_by_package_name(monorepo_root, tsconfig_files,
\* calculation_type), the entry point that takes the mode as an argument
\* ------------------------------------------------------------------------

\* lib.rs remove_relative_path_prefix_from_absolute_path: the first
\* ancestor that ends with the prefix is stripped; without one the function
\* prints a message and panics.
lib_remove_relative_path_prefix_from_absolute_path(prefix, absolute_path) ==
    LET matching == { a \in Ancestors(absolute_path) : PathEndsWith(a, prefix) }
    IN  IF matching = {}
        THEN [tag |-> "Panic"]
        ELSE LET ancestor == CHOOSE a \in matching :
                                 \A b \in matching : Len(b) <= Len(a)
             IN  [tag |-> "Ok", path |-> StripPrefix(absolute_path, ancestor)]

\* lib.rs tsconfig_includes_exact: the compiler is given the tsconfig file
\* as its project; its standard output is decoded and filtered whatever
\* its exit status.
lib_tsconfig_includes_exact(monorepo_root, tsconfig, d) ==
    LET child == TscRun(d, Parent(tsconfig))
    IN  IF ~child.spawned
        THEN [tag |-> "Err", kind |-> "TypescriptCompilerInvocationError"]
        ELSE IF ~child.utf8
        THEN [tag |-> "Err", kind |-> "TypescriptCompilerResponseParseError"]
        ELSE
        LET NonEmpty(line) == line # <<>>
            paths == LET ls == SelectSeq(Lines(child.stdout), NonEmpty)
                     IN  [i \in 1..Len(ls) |-> PathFromStr(ls[i])]
            InRoot(path) == is_monorepo_file(monorepo_root, path)
            kept == SelectSeq(paths, InRoot)
            relative ==
                [i \in 1..Len(kept) |->
                    lib_remove_relative_path_prefix_from_absolute_path(
                        monorepo_root, kept[i])]
        IN  IF \E i \in 1..Len(relative) : relative[i].tag = "Panic"
            THEN [tag |-> "Panic"]
            ELSE [tag |-> "Ok",
                  files |-> [i \in 1..Len(relative) |-> relative[i].path]]

\* lib.rs tsconfig_includes_estimate: the expect on parent(), then the
\* configuration, the whitelist and the walk of estimate.rs, collected
\* into one Result.
lib_tsconfig_includes_estimate(monorepo_root, tsconfig_file, d) ==
    IF ~HasParent(tsconfig_file) THEN [tag |-> "Panic"]
    ELSE
    LET walker == tsconfig_includes_estimate(monorepo_root, tsconfig_file, d)
    IN  IF ~walker.ok
        THEN [tag |-> "Err", kind |-> "ReadJson", inner |-> walker.inner]
        ELSE
        LET failure == FirstFailure(walker.items)
        IN  IF failure # 0
            THEN IF walker.items[failure].tag = "Panic"
                 THEN [tag |-> "Panic"]
                 ELSE [tag |-> "Err", kind |-> "GlobWalkError"]
            ELSE [tag |-> "Ok",
                  files |-> [i \in 1..Len(walker.items) |->
                                walker.items[i].path]]

\* lib.rs, the closure of the parallel map: the match on
\* calculation_type.into(), the ?, the sort.
lib_worker(calculation_type, monorepo_root, package, d) ==
    LET tsconfig == Join(monorepo_root, package.tsconfig_file)
        included == IF calculation_type = "Estimate"
                    THEN lib_tsconfig_includes_estimate(monorepo_root, tsconfig, d)
                    ELSE lib_tsconfig_includes_exact(monorepo_root, tsconfig, d)
    IN  IF included.tag = "Ok"
        THEN [tag |-> "Ok", files |-> SortedFiles(included.files)]
        ELSE included

\* lib.rs, the closure of the requests: the code of estimate.rs, in both
\* modes.
lib_resolve_closure(monorepo_root, files, manifests, d) ==
    resolve_closure("Estimate", monorepo_root, files, manifests, d)

\* The first half and the per-package work of the entry point called.
ResolveCall(entry_point, calculation_type, monorepo_root, files, manifests, d) ==
    IF entry_point = "lib"
    THEN lib_resolve_closure(monorepo_root, files, manifests, d)
    ELSE resolve_closure(calculation_type, monorepo_root, files, manifests, d)

\* A mutation of WorkerCall: package bar is always enumerated by the
\* compiler, whatever the mode of the call.
WorkerCall_mixing_modes(entry_point, calculation_type, monorepo_root, package, d) ==
    IF entry_point = "lib"
    THEN lib_worker(IF package.scoped_package_name = "bar"
                    THEN "Exact" ELSE calculation_type,
                    monorepo_root, package, d)
    ELSE worker(calculation_type, monorepo_root, package, d)

WorkerCall(entry_point, calculation_type, monorepo_root, package, d) ==
    IF entry_point = "lib"
    THEN lib_worker(calculation_type, monorepo_root, package, d)
    ELSE worker(calculation_type, monorepo_root, package, d)

\* Command::output waits for the child to exit: the call of the worker
\* comes back unless it has spawned a compiler that never exits.  The
\* Estimate enumeration spawns nothing.
output_returns(entry_point, calculation_type, monorepo_root, package, d) ==
    IF calculation_type = "Estimate" THEN TRUE
    ELSE IF entry_point = "lib"
    THEN LET child == TscRun(d, Parent(Join(monorepo_root, package.tsconfig_file)))
         IN  child.spawned => child.exits
    ELSE LET canonical == canonicalize(monorepo_root, d)
         IN  IF ~canonical.ok THEN TRUE
             ELSE LET dir == package_directory(package.tsconfig_file,
                                               canonical.value)
                  IN  IF ~dir.ok THEN TRUE
                      ELSE LET child == TscRun(d, dir.value)
                           IN  child.spawned => child.exits

\* ------------------------------------------------------------------------
\* The monorepo of the model
\* ------------------------------------------------------------------------

\* Bounds of the model.
MaxRequests == 2
MaxPatterns == 2
MaxFiles == 2
MaxLines == 2

\* The monorepo root as the caller may give it: relative to the working
\* directory, or absolute.
RelativeRoot == <<<<"m", "o", "n", "o">>>>

RootForms == { RelativeRoot, Cwd \o RelativeRoot }

CanonRoot == Cwd \o <<<<"m", "o", "n", "o">>>>

PackageNames == {"foo", "bar", "baz"}

DirName(n) ==
    CASE n = "foo" -> <<"f", "o", "o">>
      [] n = "bar" -> <<"b", "a", "r">>
      [] n = "baz" -> <<"b", "a", "z">>

\* The directory of a package, relative to the monorepo root.
PackageDir(n) == <<<<"p", "a", "c", "k", "a", "g", "e", "s">>, DirName(n)>>

\* A requested tsconfig file with no package.json beside it.
GhostTsconfig == <<<<"p", "a", "c", "k", "a", "g", "e", "s">>, <<"g", "h", "o", "s", "t">>, tsconfig_json>>

RequestPaths ==
    { PackageDir(n) \o <<tsconfig_json>> : n \in PackageNames }
    \cup {GhostTsconfig}

\* Sequences of at most n elements of S.
SeqsUpTo(S, n) == UNION { [1..k -> S] : k \in 0..n }

\* Sequences of at most n distinct elements of S.
DistinctSeqsUpTo(S, n) ==
    { q \in SeqsUpTo(S, n) : \A i, j \in 1..Len(q) : i # j => q[i] # q[j] }

\* The manifest index (package_manifests_by_package_name) of a dependency
\* graph.
ManifestsOf(names, deps) ==
    [n \in names |->
        [name |-> n,
         path |-> PackageDir(n) \o <<package_json>>,
         dependencies |-> deps[n]]]

\* The internal-dependency graphs of the monorepo: the acyclic ones, every
\* package ranked above its dependencies.
Graphs ==
    { deps \in [PackageNames -> SUBSET PackageNames] :
        \E rank \in [PackageNames -> 1..Cardinality(PackageNames)] :
            \A n \in PackageNames : \A m \in deps[n] : rank[m] < rank[n] }

\* The graphs in which foo alone has dependencies.
LiveGraphs ==
    { deps \in Graphs : deps["bar"] = {} /\ deps["baz"] = {} }

\* Files of a package, relative to its directory.
F_a_ts == <<<<"s", "r", "c">>, <<"a", ".", "t", "s">>>>
F_b_tsx == <<<<"s", "r", "c">>, <<"b", ".", "t", "s", "x">>>>
F_c_d_ts == <<<<"s", "r", "c">>, <<"l", "i", "b">>, <<"c", ".", "d", ".", "t", "s">>>>
F_a_js == <<<<"s", "r", "c">>, <<"a", ".", "j", "s">>>>
F_l_jsx == <<<<"s", "r", "c">>, <<"l", ".", "j", "s", "x">>>>
F_data_json == <<<<"s", "r", "c">>, <<"d", "a", "t", "a", ".", "j", "s", "o", "n">>>>
F_x_snap == <<<<"s", "r", "c">>, <<"x", ".", "s", "n", "a", "p">>>>

FileUniverse ==
    {F_a_ts, F_b_tsx, F_c_d_ts, F_a_js, F_l_jsx, F_data_json, F_x_snap}

\* Include patterns.
G_src_all == <<"s", "r", "c", "/", "*", "*", "/", "*">>
G_src_json == <<"s", "r", "c", "/", "*", "*", "/", "*", ".", "j", "s", "o", "n">>
G_src_son == <<"s", "r", "c", "/", "*", "*", "/", "*", "s", "o", "n">>
G_test_snap == <<"t", "e", "s", "t", "/", "*", "*", "/", "*", ".", "s", "n", "a", "p">>
G_src_a_js == <<"s", "r", "c", "/", "a", ".", "j", "s">>

G_src_direct == <<"s", "r", "c", "/", "*">>

PatternUniverse ==
    <<G_src_all, G_src_direct, G_src_json, G_src_son, G_test_snap, G_src_a_js>>

\* Include lists: at most n patterns of the universe, in its order.
IncludeLists(n) ==
    { [i \in 1..Len(q) |-> PatternUniverse[q[i]]] :
        q \in { r \in SeqsUpTo(1..Len(PatternUniverse), n) :
                  \A i \in 1..(Len(r) - 1) : r[i] < r[i + 1] } }

\* Directory listings: at most n regular files, in any directory order.
WalkOrders(n) ==
    { [i \in 1..Len(q) |-> [ok |-> TRUE, path |-> q[i]]] :
        q \in DistinctSeqsUpTo(FileUniverse, n) }

\* Directory listings in which the walk fails on an entry: alone, after
\* a file and before a file.
FailingWalks ==
    { <<[ok |-> FALSE]>>,
      <<[ok |-> TRUE, path |-> F_a_ts], [ok |-> FALSE]>>,
      <<[ok |-> FALSE], [ok |-> TRUE, path |-> F_b_tsx]>> }

\* Lines of the compiler's output for package foo: files of the package,
\* of another package, of a vendored dependency, outside the monorepo, and
\* an empty line.
L_foo_a_ts == PathStr(<<RootDir, <<"w", "o", "r", "k">>, <<"m", "o", "n", "o">>, <<"p", "a", "c", "k", "a", "g", "e", "s">>, <<"f", "o", "o">>, <<"s", "r", "c">>, <<"a", ".", "t", "s">>>>)
L_foo_data_json == PathStr(<<RootDir, <<"w", "o", "r", "k">>, <<"m", "o", "n", "o">>, <<"p", "a", "c", "k", "a", "g", "e", "s">>, <<"f", "o", "o">>, <<"s", "r", "c">>, <<"d", "a", "t", "a", ".", "j", "s", "o", "n">>>>)
L_bar_a_ts == PathStr(<<RootDir, <<"w", "o", "r", "k">>, <<"m", "o", "n", "o">>, <<"p", "a", "c", "k", "a", "g", "e", "s">>, <<"b", "a", "r">>, <<"s", "r", "c">>, <<"a", ".", "t", "s">>>>)
L_vendored == PathStr(<<RootDir, <<"w", "o", "r", "k">>, <<"m", "o", "n", "o">>, node_modules, <<"b", "a", "r">>, <<"a", ".", "t", "s">>>>)
L_usr_lib == PathStr(<<RootDir, <<"u", "s", "r">>, <<"l", "i", "b">>, <<"l", "i", "b", ".", "d", ".", "t", "s">>>>)
L_usr_mono == PathStr(<<RootDir, <<"u", "s", "r">>, <<"m", "o", "n", "o">>, <<"a", ".", "t", "s">>>>)

LineUniverse ==
    {L_foo_a_ts, L_foo_data_json, L_bar_a_ts, L_vendored, L_usr_lib,
     L_usr_mono, <<>>}

\* The compiler's standard output: every line ended by a line feed.
RECURSIVE StdoutOf(_)
StdoutOf(lines) ==
    IF lines = <<>> THEN <<>>
    ELSE Head(lines) \o <<"\n">> \o StdoutOf(Tail(lines))

TscOk(lines) ==
    [exits |-> TRUE, spawned |-> TRUE, code |-> 0, utf8 |-> TRUE, stdout |-> StdoutOf(lines),
     stderr |-> "none"]

TscFailed ==
    [exits |-> TRUE, spawned |-> TRUE, code |-> 2, utf8 |-> TRUE,
     stdout |-> StdoutOf(<<L_foo_a_ts>>), stderr |-> "error TS5083"]

\* A compiler that is spawned and never exits.
TscHangs ==
    [exits |-> FALSE, spawned |-> TRUE, code |-> 0, utf8 |-> TRUE,
     stdout |-> <<>>, stderr |-> "none"]

TscRuns(n) ==
    { TscOk(lines) : lines \in SeqsUpTo(LineUniverse, n) }
    \cup {TscFailed,
          [exits |-> TRUE, spawned |-> FALSE, code |-> 0, utf8 |-> TRUE, stdout |-> <<>>,
           stderr |-> "none"],
          [exits |-> TRUE, spawned |-> TRUE, code |-> 0, utf8 |-> FALSE, stdout |-> <<>>,
           stderr |-> "none"],
          [exits |-> TRUE, spawned |-> TRUE, code |-> 1, utf8 |-> FALSE, stdout |-> <<>>,
           stderr |-> "error TS6053"]}

\* tsconfig.json documents.
ConfigDoc(allow_js, resolve_json_module, include) ==
    [state |-> "json",
     value |-> [compilerOptions |->
                    [allowJs |-> allow_js,
                     resolveJsonModule |-> resolve_json_module],
                include |-> include]]

ConfigDocs(n) ==
    { ConfigDoc(a, r, inc) : a \in BOOLEAN, r \in BOOLEAN, inc \in IncludeLists(n) }
    \cup { [state |-> "json", value |-> [include |-> <<G_src_all>>]],
           [state |-> "json", value |-> [compilerOptions |-> [allowJs |-> TRUE]]],
           [state |-> "json",
            value |-> [compilerOptions |-> [allowJs |-> TRUE],
                       include |-> <<G_src_all>>]],
           [state |-> "json",
            value |-> [compilerOptions |-> [resolveJsonModule |-> TRUE],
                       include |-> <<G_src_all, G_src_json>>]],
           [state |-> "malformed"],
           [state |-> "unreadable"],
           [state |-> "absent"] }

\* The disk of one package: its manifest, its configuration, its directory
\* listing and what the compiler prints for it.
PackageDisk(n, config, entries, run) ==
    [files |-> (CanonRoot \o PackageDir(n) \o <<package_json>>
                    :> [state |-> "json", value |-> [name |-> n]])
               @@ (CanonRoot \o PackageDir(n) \o <<tsconfig_json>> :> config),
     dirs |-> (CanonRoot \o PackageDir(n) :> entries),
     tsc |-> (CanonRoot \o PackageDir(n) :> run),
     realpath |-> TRUE]

MergeDisk(a, b) ==
    [files |-> a.files @@ b.files, dirs |-> a.dirs @@ b.dirs,
     tsc |-> a.tsc @@ b.tsc, realpath |-> a.realpath /\ b.realpath]

Entries(files) == [i \in 1..Len(files) |-> [ok |-> TRUE, path |-> files[i]]]

FooDisk ==
    PackageDisk("foo", ConfigDoc(FALSE, TRUE, <<G_src_all, G_src_json>>),
                Entries(<<F_data_json, F_a_ts>>),
                TscOk(<<L_foo_data_json, L_foo_a_ts>>))

BarDisk ==
    PackageDisk("bar", ConfigDoc(TRUE, FALSE, <<G_src_all>>),
                Entries(<<F_b_tsx, F_a_js>>),
                TscOk(<<L_usr_lib, L_bar_a_ts, L_foo_a_ts>>))

BazDisk ==
    PackageDisk("baz", [state |-> "json", value |-> [include |-> <<G_src_all>>]],
                Entries(<<F_a_ts>>),
                TscOk(<<PathStr(<<RootDir, <<"w", "o", "r", "k">>, <<"m", "o", "n", "o">>, <<"p", "a", "c", "k", "a", "g", "e", "s">>, <<"b", "a", "z">>, <<"s", "r", "c">>, <<"a", ".", "t", "s">>>>)>>))

\* Package baz with a configuration that does not load and a project the
\* compiler rejects.
BrokenBazDisk ==
    PackageDisk("baz",
                [state |-> "json", value |-> [compilerOptions |-> [allowJs |-> TRUE]]],
                Entries(<<F_a_ts>>), TscFailed)

\* Package bar with a directory the walk cannot read and a compiler that
\* prints bytes that are not UTF-8.
BrokenBarDisk ==
    PackageDisk("bar", ConfigDoc(TRUE, FALSE, <<G_src_all>>),
                <<[ok |-> FALSE]>>,
                [exits |-> TRUE, spawned |-> TRUE, code |-> 0, utf8 |-> FALSE, stdout |-> <<>>,
                 stderr |-> "none"])

\* Package bar with a compiler that never exits.
HangingBarDisk ==
    PackageDisk("bar", ConfigDoc(TRUE, FALSE, <<G_src_all>>),
                Entries(<<F_b_tsx, F_a_js>>), TscHangs)

Disks == { MergeDisk(FooDisk, MergeDisk(BarDisk, BazDisk)),
           MergeDisk(FooDisk, MergeDisk(BarDisk, BrokenBazDisk)),
           MergeDisk(FooDisk, MergeDisk(BrokenBarDisk, BrokenBazDisk)) }

\* The disks of Disks, and two on which the compiler of bar never exits.
LiveDisks ==
    Disks \cup { MergeDisk(FooDisk, MergeDisk(HangingBarDisk, BazDisk)),
                 MergeDisk(FooDisk, MergeDisk(HangingBarDisk, BrokenBazDisk)) }

\* A configuration file that sits directly in the monorepo root.
RootTsconfig == <<tsconfig_json>>

L_root_a_ts == PathStr(CanonRoot \o F_a_ts)

\* The files of a package at the monorepo root: its configuration, its
\* listing, its compiler run, and (has_manifest) its package.json, which
\* names the package "root".
RootDisk(has_manifest) ==
    [files |-> (CanonRoot \o <<tsconfig_json>>
                    :> ConfigDoc(FALSE, FALSE, <<G_src_all>>))
               @@ (IF has_manifest
                   THEN (CanonRoot \o <<package_json>>
                            :> [state |-> "json", value |-> [name |-> "root"]])
                   ELSE <<>>),
     dirs |-> (CanonRoot :> Entries(<<F_a_ts>>)),
     tsc |-> (CanonRoot :> TscOk(<<L_root_a_ts>>)),
     realpath |-> TRUE]

\* A package.json beside GhostTsconfig whose name the manifest index does
\* not hold.
GhostManifestDisk ==
    [files |-> (CanonRoot \o Parent(GhostTsconfig) \o <<package_json>>
                    :> [state |-> "json", value |-> [name |-> "ghost"]]),
     dirs |-> <<>>,
     tsc |-> <<>>,
     realpath |-> TRUE]

RootDisks ==
    { MergeDisk(FooDisk, MergeDisk(GhostManifestDisk, RootDisk(has_manifest))) :
        has_manifest \in BOOLEAN }

\* Manifest indexes over package foo and, or not, a package "root" whose
\* manifest is the package.json of the monorepo root; foo depends on it or
\* not.
\* An index whose manifest path is absolute: the tsconfig file of foo is
\* then named from the file system's root, whatever the monorepo root.
AbsoluteIndex ==
    "foo" :> [name |-> "foo",
              path |-> CanonRoot \o PackageDir("foo") \o <<package_json>>,
              dependencies |-> {}]

RootIndexes ==
    { ManifestsOf({"foo"}, [n \in {"foo"} |-> {}]) }
    \cup { ("root" :> [name |-> "root", path |-> <<package_json>>,
                      dependencies |-> {}])
           @@ ManifestsOf({"foo"}, [n \in {"foo"} |-> deps]) :
             deps \in {{}, {"root"}} }
    \cup {AbsoluteIndex}

\* ------------------------------------------------------------------------
\* One call of tsconfig_includes_by_package_name
\* ------------------------------------------------------------------------

VARIABLES
    entry,           \* "modules": estimate::/exact::tsconfig_includes_by_package_name;
                     \* "lib": tsconfig_includes_by_package_name of lib.rs
    calculation,     \* "Estimate" (estimate.rs) or "Exact" (exact.rs); for
                     \* lib.rs the argument calculation_type
    monorepo_root,   \* the argument monorepo_root
    tsconfig_files,  \* the argument tsconfig_files
    manifests,       \* package_manifests_by_package_name
    disk,            \* the files, directories and compiler runs
    phase,           \* "called", "aggregating", "returned"
    to_enumerate,    \* transitive_internal_dependency_tsconfigs_inclusive_to_enumerate
    job,             \* the parallel map: per package its state, the number
                     \* of times its enumerator was invoked, its result
    arrival,         \* the packages in the order their enumerations ended
    first_error,     \* the error the parallel collect keeps
    result           \* what the call returned

vars == <<entry, calculation, monorepo_root, tsconfig_files, manifests, disk, phase,
          to_enumerate, job, arrival, first_error, result>>

None == [tag |-> "None"]

InitCall ==
    /\ phase = "called"
    /\ to_enumerate = {}
    /\ job = <<>>
    /\ arrival = <<>>
    /\ first_error = None
    /\ result = None

\* Any dependency graph over three packages, any short request list, both
\* modes, a healthy disk or one with a package that fails to enumerate.
Init ==
    /\ entry = "modules"
    /\ calculation \in {"Estimate", "Exact"}
    /\ monorepo_root = RelativeRoot
    /\ tsconfig_files \in SeqsUpTo(RequestPaths, MaxRequests)
    /\ manifests \in { ManifestsOf(PackageNames, deps) : deps \in Graphs }
    /\ disk \in Disks
    /\ InitCall

\* A monorepo of the single package foo, requested alone, over any
\* configuration and directory listing (Estimate) or compiler run (Exact),
\* and a monorepo root that std::fs::canonicalize fails on.
InitEnum ==
    /\ entry = "modules"
    /\ monorepo_root \in RootForms
    /\ tsconfig_files = <<PackageDir("foo") \o <<tsconfig_json>>>>
    /\ manifests = ManifestsOf({"foo"}, [n \in {"foo"} |-> {}])
    /\ \/ /\ calculation = "Estimate"
          /\ disk \in { PackageDisk("foo", config, entries, TscFailed) :
                          config \in ConfigDocs(MaxPatterns),
                          entries \in WalkOrders(MaxFiles) \cup FailingWalks }
       \/ /\ calculation = "Exact"
          /\ disk \in { PackageDisk("foo", ConfigDoc(FALSE, FALSE, <<G_src_all>>),
                                    <<>>, run) :
                          run \in TscRuns(MaxLines) }
                      \cup { [PackageDisk("foo",
                                          ConfigDoc(FALSE, FALSE, <<G_src_all>>),
                                          <<>>, TscOk(<<L_foo_a_ts>>))
                                 EXCEPT !.realpath = FALSE] }
    /\ InitCall

\* A monorepo with a configuration file in its root and a package.json
\* the index does not know: requests for the root configuration, for
\* package foo and for the unknown package.
InitRoot ==
    /\ entry = "modules"
    /\ calculation \in {"Estimate", "Exact"}
    /\ monorepo_root \in RootForms
    /\ tsconfig_files \in
           SeqsUpTo({RootTsconfig, PackageDir("foo") \o <<tsconfig_json>>,
                     GhostTsconfig}, MaxRequests)
    /\ manifests \in RootIndexes
    /\ disk \in RootDisks
    /\ InitCall

\* A call of the entry point of lib.rs in either mode: a chain of
\* dependencies or none, a healthy disk or one with packages that fail.
InitLib ==
    /\ entry = "lib"
    /\ calculation \in {"Estimate", "Exact"}
    /\ monorepo_root \in RootForms
    /\ tsconfig_files \in SeqsUpTo(RequestPaths, MaxRequests)
    /\ manifests \in
           { ManifestsOf(PackageNames, deps) :
               deps \in { [n \in PackageNames |-> {}],
                          ("foo" :> {"bar"}) @@ ("bar" :> {"baz"}) @@ ("baz" :> {}) } }
    /\ disk \in Disks
    /\ InitCall

\* The sequential first half of the call: every request is resolved, or
\* the call ends with the first failure.
ResolveClosure ==
    /\ phase = "called"
    /\ \E closure \in {ResolveCall(entry, calculation, monorepo_root,
                                   tsconfig_files, manifests, disk)} :
           IF closure.tag = "Ok"
           THEN /\ to_enumerate' = closure.packages
                /\ job' = [p \in closure.packages |->
                              [state |-> "queued", invocations |-> 0,
                               result |-> None]]
                /\ phase' = "aggregating"
                /\ result' = result
           ELSE /\ result' = closure
                /\ phase' = "returned"
                /\ UNCHANGED <<to_enumerate, job>>
    /\ UNCHANGED <<entry, calculation, monorepo_root, tsconfig_files, manifests, disk,
                   arrival, first_error>>

\* A thread of the pool takes a package of the set and invokes its
\* enumerator.
StartJob(p) ==
    /\ phase = "aggregating"
    /\ job[p].state = "queued"
    /\ job' = [job EXCEPT ![p].state = "running",
                          ![p].invocations = @ + 1]
    /\ UNCHANGED <<entry, calculation, monorepo_root, tsconfig_files, manifests, disk,
                   phase, to_enumerate, arrival, first_error, result>>

\* A mutation of write_entry: the workers share one buffer, the outcome of
\* a worker replaces the outcome of every worker that ended before it.
write_entry_sharing_buffer(jobs, package, outcome) ==
    [p \in DOMAIN jobs |->
        IF p = package \/ jobs[p].state = "done"
        THEN [jobs[p] EXCEPT !.state = "done", !.result = outcome]
        ELSE jobs[p]]

\* The closure of the parallel map returns its own pair (name, files) or
\* its own error: nothing but the outcome of its package is written.
write_entry(jobs, package, outcome) ==
    [jobs EXCEPT ![package].state = "done", ![package].result = outcome]

\* The enumeration of a package ends; the collect keeps the first error it
\* is handed.
FinishJob(p) ==
    /\ phase = "aggregating"
    /\ job[p].state = "running"
    /\ output_returns(entry, calculation, monorepo_root, p, disk)
    /\ \E r \in {WorkerCall(entry, calculation, monorepo_root, p, disk)} :
           /\ job' = write_entry(job, p, r)
           /\ arrival' = Append(arrival, p)
           /\ first_error' = IF r.tag = "Err" /\ first_error = None
                             THEN r ELSE first_error
    /\ UNCHANGED <<entry, calculation, monorepo_root, tsconfig_files, manifests, disk,
                   phase, to_enumerate, result>>

\* The HashMap of the successful call: the entries are inserted in the
\* order in which they arrive, an insert replaces the entry of its key.
RECURSIVE CollectMap(_, _)
CollectMap(jobs, order) ==
    IF order = <<>> THEN <<>>
    ELSE LET p == order[Len(order)]
         IN  (p.scoped_package_name :> jobs[p].result.files)
             @@ CollectMap(jobs, SubSeq(order, 1, Len(order) - 1))

\* A mutation of Collect: the map keeps every success and forgets the
\* failures.
CollectSuccesses(jobs, order, first) ==
    LET Succeeded(p) == jobs[p].result.tag = "Ok"
    IN  [tag |-> "Ok", map |-> CollectMap(jobs, SelectSeq(order, Succeeded))]

\* A mutation of Collect: the workers append to one shared list of files,
\* so the entry of a package also holds the files of the packages that
\* arrived before it.
RECURSIVE SharedBufferMap(_, _)
SharedBufferMap(jobs, order) ==
    IF order = <<>> THEN <<>>
    ELSE LET p == order[Len(order)]
             before == SubSeq(order, 1, Len(order) - 1)
             earlier == SharedBufferMap(jobs, before)
         IN  (p.scoped_package_name :>
                 (IF before = <<>> THEN <<>>
                  ELSE earlier[before[Len(before)].scoped_package_name])
                 \o jobs[p].result.files)
             @@ earlier

CollectSharedBuffer(jobs, order, first) ==
    IF \E p \in DOMAIN jobs : jobs[p].result.tag = "Panic"
    THEN [tag |-> "Panic"]
    ELSE IF first # None THEN first
    ELSE [tag |-> "Ok", map |-> SharedBufferMap(jobs, order)]

\* collect::<Result<HashMap<_, _>, _>>()?: the error the collect kept, or
\* the map of all the entries; the panic of a worker is resumed in the
\* caller.
Collect(jobs, order, first) ==
    IF \E p \in DOMAIN jobs : jobs[p].result.tag = "Panic"
    THEN [tag |-> "Panic"]
    ELSE IF first # None THEN first
    ELSE [tag |-> "Ok", map |-> CollectMap(jobs, order)]

\* The parallel collect ends once no enumeration is running and either
\* every package is done or one has failed (what is still queued is then
\* dropped). A panic of a worker unwinds into the caller.
\* A mutation of collect_ready: the collect hands the first error back
\* without waiting for the workers that are still running.
collect_ready_abandoning_workers(jobs, packages) ==
    \/ \A p \in packages : jobs[p].state = "done"
    \/ \E p \in packages : jobs[p].state = "done" /\ jobs[p].result.tag # "Ok"

\* The collect of the parallel map comes back when no worker is running
\* and either every package was enumerated or one enumeration failed: the
\* packages not started yet are then dropped.
collect_ready(jobs, packages) ==
    /\ \A p \in packages : jobs[p].state # "running"
    /\ \/ \A p \in packages : jobs[p].state = "done"
       \/ \E p \in packages :
              jobs[p].state = "done" /\ jobs[p].result.tag # "Ok"

Return ==
    /\ phase = "aggregating"
    /\ collect_ready(job, to_enumerate)
    /\ result' = Collect(job, arrival, first_error)
    /\ phase' = "returned"
    /\ UNCHANGED <<entry, calculation, monorepo_root, tsconfig_files, manifests, disk,
                   to_enumerate, job, arrival, first_error>>

Next ==
    \/ ResolveClosure
    \/ \E p \in to_enumerate : StartJob(p)
    \/ \E p \in to_enumerate : FinishJob(p)
    \/ Return

Spec == Init /\ [][Next]_vars

SpecEnum == InitEnum /\ [][Next]_vars

SpecRoot == InitRoot /\ [][Next]_vars

SpecLib == InitLib /\ [][Next]_vars

\* The calls whose first request is foo, over a monorepo in which a
\* compiler may never exit.
InitLive ==
    /\ entry = "modules"
    /\ calculation \in {"Estimate", "Exact"}
    /\ monorepo_root = RelativeRoot
    /\ tsconfig_files \in { files \in SeqsUpTo(RequestPaths, MaxRequests) :
                               /\ files # <<>>
                               /\ files[1] = PackageDir("foo") \o <<tsconfig_json>> }
    /\ manifests \in { ManifestsOf(PackageNames, deps) : deps \in LiveGraphs }
    /\ disk \in LiveDisks
    /\ InitCall

\* The worker of package n may come back from its enumeration: FinishJob is
\* enabled for it.
CanFinish(n) ==
    \E p \in to_enumerate :
        /\ p.scoped_package_name = n
        /\ phase = "aggregating"
        /\ job[p].state = "running"
        /\ output_returns(entry, calculation, monorepo_root, p, disk)

\* The step FinishJob takes for package n.
Finishes(n) ==
    \E p \in to_enumerate :
        /\ p.scoped_package_name = n
        /\ job[p].state = "running"
        /\ job'[p].state = "done"

\* The step ResolveClosure takes; it is enabled as long as the call has
\* not resolved its requests.
Resolves == phase = "called" /\ phase' # "called"

\* The calling thread runs the resolution and then blocks in the collect;
\* the pool runs a job that is queued and lets a running job go on, as long
\* as the call has not returned.  The first and the last conjunct are the
\* weak fairness of ResolveClosure and of FinishJob, with their enabling
\* conditions written out.
Fairness ==
    /\ []<>(phase # "called") \/ []<><<Resolves>>_vars
    /\ WF_vars(Return)
    /\ \A n \in PackageNames :
           /\ WF_vars(\E p \in to_enumerate :
                         p.scoped_package_name = n /\ StartJob(p))
           /\ []<>(~CanFinish(n)) \/ []<><<Finishes(n)>>_vars

SpecLive == InitLive /\ [][Next]_vars /\ Fairness

\* The workers that wait for a compiler that never exits.
BlockedWorkers ==
    { p \in to_enumerate :
        /\ job[p].state = "running"
        /\ ~output_returns(entry, calculation, monorepo_root, p, disk) }

\* ------------------------------------------------------------------------
\* Properties
\* ------------------------------------------------------------------------

\* The closure was resolved: the call is aggregating, or has returned a
\* mapping.
Resolved ==
    \/ phase = "aggregating"
    \/ phase = "returned" /\ result.tag = "Ok"

\* The packages of the monorepo a request list names.
RequestedNames(files) ==
    { n \in DOMAIN manifests :
        \E i \in 1..Len(files) : files[i] = PackageDir(n) \o <<tsconfig_json>> }

ResolvedNames == { p.scoped_package_name : p \in to_enumerate }

\* C1. Closure inclusivity: once the closure is resolved, the package of
\* every requested configuration path is in the resolved set, whatever the
\* dependency graph, also when the package has no internal dependency.
C1_ClosureInclusivity ==
    Resolved => RequestedNames(tsconfig_files) \subseteq ResolvedNames

\* C1 happens: a requested package without internal dependencies is in the
\* resolved set.
C1_Witness ==
    /\ phase = "aggregating"
    /\ \E n \in RequestedNames(tsconfig_files) :
           manifests[n].dependencies = {} /\ n \in ResolvedNames

\* The least set of packages that holds the packages R and, with a
\* package, its internal dependencies.
ClosureOf(R) ==
    { n \in DOMAIN manifests :
        \A S \in SUBSET DOMAIN manifests :
            (R \subseteq S /\ \A m \in S : manifests[m].dependencies \subseteq S)
                => n \in S }

\* C2. On success the keys of the returned mapping are exactly the
\* requested packages and the packages reachable from them over
\* internal-dependency edges, one key per package of the closure set.
C2_KeysAreTheClosure ==
    (phase = "returned" /\ result.tag = "Ok") =>
        /\ DOMAIN result.map = ClosureOf(RequestedNames(tsconfig_files))
        /\ Cardinality(DOMAIN result.map) = Cardinality(to_enumerate)

\* C2 happens: a returned mapping has the key of a package that was not
\* requested but is a dependency of the requested one, and lacks a package
\* of the monorepo that is not reachable.
C2_Witness ==
    /\ phase = "returned" /\ result.tag = "Ok"
    /\ \E a, b \in DOMAIN manifests :
           /\ RequestedNames(tsconfig_files) = {a}
           /\ b # a
           /\ b \in manifests[a].dependencies
           /\ b \in DOMAIN result.map
    /\ \E n \in DOMAIN manifests : n \notin DOMAIN result.map

\* The elements of q at the indices I, in order.
RECURSIVE Pick(_, _, _)
Pick(q, I, i) ==
    IF i > Len(q) THEN <<>>
    ELSE (IF i \in I THEN <<q[i]>> ELSE <<>>) \o Pick(q, I, i + 1)

\* The closure has just been resolved: no enumeration has started.
JustResolved ==
    phase = "aggregating" /\ \A p \in to_enumerate : job[p].state = "queued"

\* What a call of its own resolves for the request list files.
ResolveAlone(files) ==
    resolve_closure(calculation, monorepo_root, files, manifests, disk)

\* C3. Closure union: for all request sets A and B that together make up
\* the requests of the call, resolving A and resolving B in calls of their
\* own and uniting the two package sets gives the set the one call
\* resolved.
C3_ClosureUnion ==
    JustResolved =>
        \A I, J \in SUBSET (1..Len(tsconfig_files)) :
            I \cup J = 1..Len(tsconfig_files) =>
                \E a \in {ResolveAlone(Pick(tsconfig_files, I, 1))},
                   b \in {ResolveAlone(Pick(tsconfig_files, J, 1))} :
                    /\ a.tag = "Ok"
                    /\ b.tag = "Ok"
                    /\ a.packages \cup b.packages = to_enumerate

\* C3 happens: two requests whose closures overlap, neither closure being
\* the whole resolved set.
C3_Witness ==
    /\ JustResolved
    /\ Len(tsconfig_files) = 2
    /\ \E a \in {ResolveAlone(<<tsconfig_files[1]>>)},
          b \in {ResolveAlone(<<tsconfig_files[2]>>)} :
           /\ a.tag = "Ok" /\ b.tag = "Ok"
           /\ a.packages # to_enumerate
           /\ b.packages # to_enumerate
           /\ a.packages \cap b.packages # {}

Range(q) == { q[i] : i \in 1..Len(q) }

\* The mapping of a closure set: per package name, the sorted list its
\* enumerator gives (None for an enumeration that fails).
MappingOf(packages) ==
    [n \in { p.scoped_package_name : p \in packages } |->
        CHOOSE files \in
            { IF w.tag = "Ok" THEN w.files ELSE None :
                w \in { worker(calculation, monorepo_root,
                               CHOOSE p \in packages : p.scoped_package_name = n,
                               disk) } } : TRUE]

\* A request list that asks for the same packages as the call's: its
\* paths are among the call's (in any order, any of them repeated), and
\* every path of the call it leaves out belongs to a package that is a
\* transitive dependency of a package it requests.
SameRequest(alt) ==
    /\ Range(alt) \subseteq Range(tsconfig_files)
    /\ \A f \in Range(tsconfig_files) \ Range(alt) :
           \E n \in ClosureOf(RequestedNames(alt)) :
               f = PackageDir(n) \o <<tsconfig_json>>

\* C4. The resolved closure set and the returned mapping depend only on
\* the set of requested packages: a call with the requests permuted, with
\* one repeated, or without a path whose package is a transitive
\* dependency of another requested package, resolves the same set (and
\* fails to resolve if this call did), and the mapping returned is the
\* mapping of the resolved set.
C4_OnlyTheRequestedSet ==
    /\ (JustResolved \/ (phase = "returned" /\ to_enumerate = {})) =>
           \A alt \in SeqsUpTo(Range(tsconfig_files), MaxRequests) :
               SameRequest(alt) =>
                   \E c \in {ResolveAlone(alt)} :
                       IF phase = "aggregating"
                       THEN c.tag = "Ok" /\ c.packages = to_enumerate
                       ELSE c.tag = result.tag
    /\ (phase = "returned" /\ result.tag = "Ok") =>
           result.map = MappingOf(to_enumerate)

\* C4 happens: a mapping is returned for two requested packages, the
\* first a dependency of the second, with files in it.
C4_Witness ==
    /\ phase = "returned" /\ result.tag = "Ok"
    /\ Len(tsconfig_files) = 2
    /\ \E a, b \in DOMAIN manifests :
           /\ a # b
           /\ tsconfig_files = <<PackageDir(a) \o <<tsconfig_json>>,
                                 PackageDir(b) \o <<tsconfig_json>>>>
           /\ a \in manifests[b].dependencies
           /\ b \notin ClosureOf({a})
           /\ result.map[a] # <<>>
           /\ result.map[b] # <<>>

\* The elements of the closure set that stand for the package n.
PackagesNamed(n) == { p \in to_enumerate : p.scoped_package_name = n }

\* C5. Deduplication: every package of the closure, also one that two
\* requested projects share as a transitive dependency, is in the set to
\* enumerate exactly once; its enumerator is invoked at most once in the
\* call, exactly once when its enumeration is done (with a list or with a
\* failure), and the returned mapping has the one list that invocation
\* computed.
C5_Deduplication ==
    /\ \A p \in to_enumerate :
           /\ Cardinality(PackagesNamed(p.scoped_package_name)) = 1
           /\ job[p].invocations <= 1
           /\ job[p].state = "queued" => job[p].invocations = 0
           /\ job[p].state \in {"running", "done"} => job[p].invocations = 1
    /\ (phase = "returned" /\ result.tag = "Ok") =>
           \A p \in to_enumerate :
               /\ job[p].invocations = 1
               /\ result.map[p.scoped_package_name] = job[p].result.files

\* C5 happens: two requested packages share a dependency that neither
\* request names, and the mapping is returned with its list, computed by
\* one invocation.
C5_Witness ==
    /\ phase = "returned" /\ result.tag = "Ok"
    /\ Len(tsconfig_files) = 2
    /\ \E a, b, dep \in DOMAIN manifests :
           /\ a # b /\ dep # a /\ dep # b
           /\ RequestedNames(tsconfig_files) = {a, b}
           /\ dep \in manifests[a].dependencies
           /\ dep \in manifests[b].dependencies
           /\ dep \in DOMAIN result.map
           /\ \A p \in PackagesNamed(dep) : job[p].invocations = 1

\* C6. Sort order: in every returned mapping, under either mode and for
\* every enumerator output, each per-package file list is strictly sorted:
\* every entry is before every later entry in the order of paths, so no
\* path is in the list twice.
C6_StrictlySorted ==
    (phase = "returned" /\ result.tag = "Ok") =>
        \A n \in DOMAIN result.map :
            \A i, j \in 1..Len(result.map[n]) :
                i < j => PathCmp(result.map[n][i], result.map[n][j]) < 0

\* The files the enumerator of package foo observes on the disk, as
\* absolute paths: the entries of the walk of its directory in Estimate
\* mode, the non-empty lines of the compiler's output in Exact mode.
ObservedFiles ==
    IF calculation = "Estimate"
    THEN LET entries == DirEntries(disk, CanonRoot \o PackageDir("foo"))
         IN  { CanonRoot \o PackageDir("foo") \o entries[i].path :
                 i \in 1..Len(entries) }
    ELSE LET lines == Lines(TscRun(disk, CanonRoot \o PackageDir("foo")).stdout)
         IN  { PathFromStr(lines[i]) :
                 i \in { j \in 1..Len(lines) : lines[j] # <<>> } }

\* The paths of the returned mapping.
ReturnedPaths ==
    UNION { Range(result.map[n]) : n \in DOMAIN result.map }

\* C7. Root containment: no path of a returned mapping, under either mode
\* and for a root given as an absolute or as a relative path, is empty,
\* absolute, or the name of anything but an observed file that lies
\* strictly below the monorepo root.
C7_RootContainment ==
    (phase = "returned" /\ result.tag = "Ok") =>
        \A p \in ReturnedPaths :
            /\ p # <<>>
            /\ ~IsAbsolute(p)
            /\ \E o \in ObservedFiles :
                   /\ Len(o) > Len(CanonRoot)
                   /\ SubSeq(o, 1, Len(CanonRoot)) = CanonRoot
                   /\ SubSeq(o, Len(CanonRoot) + 1, Len(o)) = p

\* C7 happens: the compiler lists a file of the package and a file outside
\* the monorepo, below a directory that has the name of the root, the root
\* is given as a relative path, and a mapping is returned with a path.
C7_Witness ==
    /\ phase = "returned" /\ result.tag = "Ok"
    /\ calculation = "Exact"
    /\ ~IsAbsolute(monorepo_root)
    /\ PathFromStr(L_usr_mono) \in ObservedFiles
    /\ PathFromStr(L_foo_a_ts) \in ObservedFiles
    /\ ReturnedPaths # {}

\* The paths the walk of package foo yields, as it yields them: below the
\* package directory joined to the root as given.
WalkedPaths ==
    LET entries == DirEntries(disk, CanonRoot \o PackageDir("foo"))
    IN  { Join(monorepo_root, PackageDir("foo")) \o entries[i].path :
            i \in 1..Len(entries) }

\* The lines of the compiler's output for package foo.
CompilerLines ==
    Range(Lines(TscRun(disk, CanonRoot \o PackageDir("foo")).stdout))

\* C8, as stated. Every returned path is not absolute, and joining the
\* monorepo root (as the caller gave it) with the path gives back exactly
\* the path the enumerator observed: the walked file in Estimate mode, the
\* line of the compiler in Exact mode.
C8_JoinGivesObservedPath ==
    (phase = "returned" /\ result.tag = "Ok") =>
        \A p \in ReturnedPaths :
            /\ ~IsAbsolute(p)
            /\ IF calculation = "Estimate"
               THEN Join(monorepo_root, p) \in WalkedPaths
               ELSE PathStr(Join(monorepo_root, p)) \in CompilerLines

\* C8, amended. Every returned path is not absolute; in Estimate mode
\* joining the monorepo root as given with the path gives exactly the path
\* the walk yielded; in Exact mode joining the canonicalized monorepo root
\* with the path gives exactly a line the compiler reported.
C8_RelativeToTheRoot ==
    (phase = "returned" /\ result.tag = "Ok") =>
        \A p \in ReturnedPaths :
            /\ ~IsAbsolute(p)
            /\ IF calculation = "Estimate"
               THEN Join(monorepo_root, p) \in WalkedPaths
               ELSE PathStr(Join(canonicalize(monorepo_root, disk).value, p))
                        \in CompilerLines

\* C8 happens: Exact mode with a relative root returns a path for a file
\* the compiler reported.
C8_Witness ==
    /\ phase = "returned" /\ result.tag = "Ok"
    /\ calculation = "Exact"
    /\ ~IsAbsolute(monorepo_root)
    /\ L_foo_data_json \in CompilerLines
    /\ \E p \in ReturnedPaths :
           PathStr(Join(CanonRoot, p)) = L_foo_data_json

\* The tsconfig.json document of package foo, and what it sets.
FooConfig ==
    disk.files[CanonRoot \o PackageDir("foo") \o <<tsconfig_json>>].value

CompilerOption(name) ==
    /\ "compilerOptions" \in DOMAIN FooConfig
    /\ name \in DOMAIN FooConfig.compilerOptions
    /\ FooConfig.compilerOptions[name]

\* The files of the listing of package foo that an include pattern
\* matches, relative to the package directory.
MatchedFiles ==
    LET entries == DirEntries(disk, CanonRoot \o PackageDir("foo"))
    IN  { entries[i].path :
            i \in { j \in 1..Len(entries) :
                      \E k \in 1..Len(FooConfig.include) :
                          GlobMatch(FooConfig.include[k], entries[j].path) } }

HasSuffix(file, suffixes) ==
    \E x \in suffixes : StrEndsWith(file[Len(file)], x)

Returned(file) == PackageDir("foo") \o file \in ReturnedPaths

\* C9. Extension gating: in Estimate mode, when every include pattern
\* ends in a bare wildcard, a matched file ending in .js or .jsx is
\* returned if and only if allowJs is true, and a matched file ending in
\* .ts, .tsx or .d.ts is returned whatever allowJs is.
C9_ExtensionGating ==
    (/\ phase = "returned" /\ result.tag = "Ok"
     /\ calculation = "Estimate"
     /\ \A k \in 1..Len(FooConfig.include) :
            FooConfig.include[k][Len(FooConfig.include[k])] = "*") =>
        \A file \in MatchedFiles :
            /\ HasSuffix(file, {ext_js, ext_jsx}) =>
                   (Returned(file) <=> CompilerOption("allowJs"))
            /\ HasSuffix(file, {ext_ts, ext_tsx, ext_d_ts}) => Returned(file)

\* C9 happens: allowJs is false, the include list is src/**/*, the
\* directory holds a.ts and a.js, and only a.ts is returned.
C9_Witness ==
    /\ phase = "returned" /\ result.tag = "Ok"
    /\ calculation = "Estimate"
    /\ FooConfig.include = <<G_src_all>>
    /\ ~CompilerOption("allowJs")
    /\ MatchedFiles = {F_a_ts, F_a_js}
    /\ ReturnedPaths = {PackageDir("foo") \o F_a_ts}

\* C10. JSON gating: in Estimate mode, with resolveJsonModule false no
\* returned path ends in .json, whatever the include patterns are; with
\* resolveJsonModule true and the pattern src/**/*.json in the list, the
\* .json files it matches are returned.
C10_JsonGating ==
    (phase = "returned" /\ result.tag = "Ok" /\ calculation = "Estimate") =>
        /\ ~CompilerOption("resolveJsonModule") =>
               \A p \in ReturnedPaths : ~StrEndsWith(p[Len(p)], ext_json)
        /\ (/\ CompilerOption("resolveJsonModule")
            /\ G_src_json \in Range(FooConfig.include)) =>
               \A file \in MatchedFiles :
                   (GlobMatch(G_src_json, file) /\ HasSuffix(file, {ext_json}))
                       => Returned(file)

\* C11. Requesting a configuration path whose directory is the monorepo
\* root itself fails with the PackageInMonorepoRoot error under either
\* mode: the closure is never resolved for it, and the call returns
\* nothing but that error.
C11_RootRequestFails ==
    (tsconfig_files # <<>> /\ tsconfig_files[1] = RootTsconfig) =>
        /\ phase # "aggregating"
        /\ phase = "returned" =>
               (result.tag = "Err" /\ result.kind = "PackageInMonorepoRoot")

\* The packages of the set whose enumeration fails.
FailingPackages ==
    { p \in to_enumerate :
        worker(calculation, monorepo_root, p, disk).tag = "Err" }

\* C12. Fail-fast aggregation: when the enumeration of at least one package
\* of the closure fails, the call returns an error, that error is the one
\* the enumeration of a failing package of the closure produced, and no
\* mapping (of the successes or of anything else) is returned.
C12_FailFastAggregation ==
    (phase = "returned" /\ to_enumerate # {} /\ FailingPackages # {}) =>
        /\ result.tag = "Err"
        /\ \E p \in FailingPackages :
               /\ job[p].state = "done"
               /\ result = job[p].result
               /\ result = worker(calculation, monorepo_root, p, disk)

\* A call over a closure in which one package enumerates and two fail with
\* different errors, returned with the error of baz although bar failed
\* too.
C12_Witness ==
    /\ phase = "returned"
    /\ result.tag = "Err"
    /\ \E ok \in to_enumerate : job[ok].result.tag = "Ok"
    /\ \E p \in to_enumerate, q \in to_enumerate :
           /\ job[p].result.tag = "Err"
           /\ job[q].result.tag = "Err"
           /\ job[p].result # job[q].result
           /\ result = job[q].result
           /\ p.scoped_package_name = "bar"
           /\ q.scoped_package_name = "baz"

\* C13. Unknown package: when the package.json next to the first requested
\* tsconfig file names a package that package_manifests_by_package_name
\* does not hold, the call returns an error (it does not panic, it returns
\* no mapping).
C13_UnknownPackageIsAnError ==
    (/\ tsconfig_files # <<>>
     /\ tsconfig_files[1] = GhostTsconfig
     /\ phase = "returned") =>
        result.tag = "Err"

\* C14. Exact mode, compiler exit status other than success: the enumeration
\* of the package fails (with the compiler-invocation error), so no line of
\* the compiler's standard output becomes a returned path and the call
\* returns no mapping.
C14_NonZeroExitFails ==
    (/\ calculation = "Exact"
     /\ phase = "returned"
     /\ \E p \in to_enumerate :
            /\ job[p].state = "done"
            /\ TscRun(disk, Parent(Join(monorepo_root, p.tsconfig_file))).spawned
            /\ TscRun(disk, Parent(Join(monorepo_root, p.tsconfig_file))).code # 0) =>
        result.tag # "Ok"

\* The packages of the set that the two modes enumerate differently.
ModeSensitive ==
    { p \in to_enumerate :
        lib_worker("Estimate", monorepo_root, p, disk)
            # lib_worker("Exact", monorepo_root, p, disk) }

ArrivalOrders ==
    { order \in [1..Cardinality(to_enumerate) -> to_enumerate] :
        \A i, j \in 1..Cardinality(to_enumerate) : i # j => order[i] # order[j] }

\* C16. Deterministic output under parallel execution: when every
\* enumeration succeeds, the mapping returned after the enumerations ended
\* in one order is the mapping any other order of ending would have
\* given.
C16_SameMappingInEveryOrder ==
    (phase = "returned" /\ result.tag = "Ok") =>
        /\ arrival \in ArrivalOrders
        /\ \A order \in ArrivalOrders : result.map = CollectMap(job, order)

\* A mapping returned for three packages with files, two of them with
\* different lists, whose enumerations ended in an order other than that
\* of their names.
C16_Witness ==
    /\ phase = "returned"
    /\ result.tag = "Ok"
    /\ Len(arrival) = 3
    /\ arrival[1].scoped_package_name = "foo"
    /\ arrival[2].scoped_package_name = "baz"
    /\ arrival[3].scoped_package_name = "bar"
    /\ result.map["foo"] # <<>>
    /\ result.map["foo"] # result.map["bar"]

\* The configuration of package foo as read_json_from_file loads it.
LoadedFooConfig ==
    read_json_from_file(
        PackageDir("foo") \o <<tsconfig_json>>,
        FileAt(disk.files, CanonRoot \o PackageDir("foo") \o <<tsconfig_json>>),
        "TypescriptConfig")

\* The reference whitelist of a tsconfig.json document: the three
\* TypeScript suffixes, the two JavaScript ones under allowJs, the text
\* after the last '*' of every include pattern that holds a '*' and does
\* not end in one; without resolveJsonModule, less the suffixes that end
\* in .json.
ReferenceWhitelist ==
    LET Stars(pattern) == { i \in 1..Len(pattern) : pattern[i] = "*" }
        LastStar(pattern) ==
            CHOOSE i \in Stars(pattern) : \A j \in Stars(pattern) : j <= i
        Contributes(pattern) ==
            Stars(pattern) # {} /\ Len(pattern) \notin Stars(pattern)
        from_patterns ==
            { SubSeq(FooConfig.include[k],
                     LastStar(FooConfig.include[k]) + 1,
                     Len(FooConfig.include[k])) :
                k \in { j \in 1..Len(FooConfig.include) :
                          Contributes(FooConfig.include[j]) } }
        all == {<<".", "t", "s">>, <<".", "t", "s", "x">>,
                <<".", "d", ".", "t", "s">>}
               \cup (IF CompilerOption("allowJs")
                     THEN {<<".", "j", "s">>, <<".", "j", "s", "x">>} ELSE {})
               \cup from_patterns
        EndsInJson(x) ==
            /\ Len(x) >= 5
            /\ SubSeq(x, Len(x) - 4, Len(x)) = <<".", "j", "s", "o", "n">>
    IN  IF CompilerOption("resolveJsonModule") THEN all
        ELSE { x \in all : ~EndsInJson(x) }

\* C17. The extension whitelist the Estimate enumerator computes for a
\* configuration equals the reference set of that configuration: nothing
\* is missing from it and nothing else is in it.
C17_WhitelistIsTheReferenceSet ==
    (/\ calculation = "Estimate"
     /\ phase = "returned"
     /\ to_enumerate # {}
     /\ LoadedFooConfig.ok) =>
        whitelisted_file_extensions(LoadedFooConfig.value) = ReferenceWhitelist

\* The whitelist was computed for allowJs without resolveJsonModule and
\* the patterns src/**/*.json and test/**/*.snap: the five code suffixes
\* and .snap, without .json.
C17_Witness ==
    /\ calculation = "Estimate"
    /\ phase = "returned"
    /\ to_enumerate # {}
    /\ LoadedFooConfig.ok
    /\ FooConfig.include = <<G_src_json, G_test_snap>>
    /\ CompilerOption("allowJs")
    /\ ~CompilerOption("resolveJsonModule")
    /\ whitelisted_file_extensions(LoadedFooConfig.value)
           = {ext_ts, ext_tsx, ext_d_ts, ext_js, ext_jsx,
              <<".", "s", "n", "a", "p">>}

\* The packages of the set whose package directory is the monorepo root.
PackagesAtRoot ==
    { p \in to_enumerate :
        Absolute(Parent(Join(monorepo_root, p.tsconfig_file))) = CanonRoot }

\* C18. No enumerator works on a package directory equal to the monorepo
\* root: the enumeration of such a package, requested or reached as a
\* dependency, ends with the PackageInMonorepoRoot error (no walk of the
\* root, no compiler run in it, no list of files).
C18_RootIsNeverEnumerated ==
    \A p \in PackagesAtRoot :
        job[p].state = "done" =>
            /\ job[p].result.tag = "Err"
            /\ IF calculation = "Estimate"
               THEN job[p].result.kind = "PackageInMonorepoRoot"
               ELSE job[p].result.inner = "PackageInMonorepoRoot"

\* The enumeration of package foo by the compiler, with its steps, and the
\* compiler run it is given.
FooEnumeration ==
    tsconfig_includes_exact(monorepo_root, PackageDir("foo") \o <<tsconfig_json>>,
                            disk)

FooRun == TscRun(disk, CanonRoot \o PackageDir("foo"))

Before(steps, a, b) ==
    \A j \in 1..Len(steps) :
        steps[j] = b => \E i \in 1..(j - 1) : steps[i] = a

\* C19. The order of the steps of the Exact enumerator. The compiler is
\* spawned only after the root was canonicalized and the package directory
\* determined; when canonicalize fails the error is Canonicalize and no
\* compiler was spawned. The exit status is checked before the output is
\* decoded: a run that ends with a status other than 0 gives the
\* TypescriptCompiler error, also when its output is no UTF-8, and the
\* output is not decoded. A successful run with output that is no UTF-8
\* gives the InvalidUtf8 error.
C19_OrderOfTheSteps ==
    (calculation = "Exact" /\ to_enumerate # {}
     /\ \A p \in to_enumerate : job[p].state = "done") =>
        \A p \in to_enumerate :
            \E e \in {FooEnumeration} :
                /\ job[p].result.tag = "Err" <=> ~e.ok
                /\ ~e.ok => job[p].result.inner = e.kind
                /\ Before(e.steps, "canonicalize", "spawn")
                /\ Before(e.steps, "package_directory", "spawn")
                /\ Before(e.steps, "status", "decode")
                /\ ~disk.realpath =>
                       e.kind = "Canonicalize" /\ e.steps = <<"canonicalize">>
                /\ (disk.realpath /\ FooRun.spawned /\ FooRun.code # 0) =>
                       /\ e.kind = "TypescriptCompiler"
                       /\ e.error = FooRun.stderr
                       /\ \A i \in 1..Len(e.steps) : e.steps[i] # "decode"
                /\ (disk.realpath /\ FooRun.spawned /\ FooRun.code = 0
                    /\ ~FooRun.utf8) =>
                       e.kind = "InvalidUtf8"

\* The compiler ran for package foo, ended with status 1 and printed bytes
\* that are no UTF-8, and the enumeration failed with the
\* TypescriptCompiler error.
C19_Witness ==
    /\ calculation = "Exact"
    /\ phase = "returned"
    /\ FooRun.spawned /\ FooRun.code = 1 /\ ~FooRun.utf8
    /\ result.tag = "Err"
    /\ result.inner = "TypescriptCompiler"

\* The lines of the compiler's output for package foo, in order, as paths.
FooLines ==
    LET ls == Lines(FooRun.stdout)
    IN  [i \in 1..Len(ls) |-> PathFromStr(ls[i])]

\* The positions of the lines the claim keeps: not empty, strictly below
\* the canonical root, no component named node_modules.
KeptLines ==
    { i \in 1..Len(FooLines) :
        /\ FooLines[i] # <<>>
        /\ Len(FooLines[i]) > Len(CanonRoot)
        /\ SubSeq(FooLines[i], 1, Len(CanonRoot)) = CanonRoot
        /\ \A k \in 1..Len(FooLines[i]) :
               FooLines[i][k] # <<"n", "o", "d", "e", "_", "m", "o", "d", "u", "l", "e", "s">> }

\* C20. On a successful compiler run the Exact enumerator returns exactly
\* the kept lines, rebased on the canonical root: as many paths as lines
\* kept, every kept line among them, and nothing that comes from an empty
\* line, a line outside the root or a line under node_modules.
C20_ExactlyTheKeptLines ==
    (/\ calculation = "Exact"
     /\ phase = "returned"
     /\ disk.realpath
     /\ FooRun.spawned /\ FooRun.code = 0 /\ FooRun.utf8) =>
        /\ result.tag = "Ok"
        /\ DOMAIN result.map = {"foo"}
        /\ Len(result.map["foo"]) = Cardinality(KeptLines)
        /\ Range(result.map["foo"])
               = { SubSeq(FooLines[i], Len(CanonRoot) + 1, Len(FooLines[i])) :
                     i \in KeptLines }

\* The compiler printed a vendored file and a file of the package: the
\* file of the package alone is returned.
C20_Witness ==
    /\ calculation = "Exact"
    /\ phase = "returned"
    /\ FooRun = TscOk(<<L_vendored, L_foo_a_ts>>)
    /\ result.tag = "Ok"
    /\ result.map["foo"] = <<PackageDir("foo") \o F_a_ts>>

\* The entries of the walk of package p that pass the filter of the
\* Estimate enumerator although the monorepo root, as the caller gave
\* it, is no prefix of them.
UnrebasableEntries(p) ==
    LET tsconfig == Join(monorepo_root, p.tsconfig_file)
        dir == Parent(tsconfig)
        loaded == read_json_from_file(tsconfig,
                                      FileAt(disk.files, Absolute(tsconfig)),
                                      "TypescriptConfig")
        walked == IF loaded.ok
                  THEN GlobWalk(dir, loaded.value.include, DirEntries(disk, dir))
                  ELSE <<>>
    IN  { i \in 1..Len(walked) :
            /\ walked[i].ok
            /\ is_monorepo_file(monorepo_root, walked[i].path)
            /\ is_whitelisted_file_extension(
                   whitelisted_file_extensions(loaded.value), walked[i].path)
            /\ ~PathStartsWith(walked[i].path, monorepo_root) }

\* C21. Estimate mode: when an entry that passed the descendant-of-root
\* filter cannot be rebased onto the monorepo root, the enumeration of the
\* package ends with an error value (a walk error of kind Path), not
\* with a panic.
C21_RebaseFailureIsAnError ==
    calculation = "Estimate" =>
        \A p \in to_enumerate :
            (job[p].state = "done" /\ UnrebasableEntries(p) # {}) =>
                job[p].result.tag = "Err"

\* What resolving the i-th requested path alone gives.
RequestOutcome(i) ==
    IF calculation = "Estimate"
    THEN estimate_request(monorepo_root, tsconfig_files[i], manifests, disk)
    ELSE exact_request(monorepo_root, tsconfig_files[i], manifests, disk)

FailedRequests ==
    { i \in 1..Len(tsconfig_files) : RequestOutcome(i).tag # "Ok" }

\* The number of enumerator invocations of the call so far.
Enumerations ==
    Cardinality({ p \in DOMAIN job : job[p].invocations > 0 })

\* C22. Closure resolution completes before aggregation starts: an
\* enumerator has run only if every requested path resolved, and a call in
\* which a requested path fails to resolve returns the error of the first
\* such path without a single enumeration.
C22_ResolutionBeforeEnumeration ==
    /\ phase = "called" => Enumerations = 0
    /\ Enumerations > 0 => FailedRequests = {}
    /\ (phase = "returned" /\ FailedRequests # {}) =>
           /\ Enumerations = 0
           /\ result = RequestOutcome(CHOOSE i \in FailedRequests :
                                          \A j \in FailedRequests : i <= j)

\* The second of two requests fails to resolve after the first resolved
\* to a closure of two packages: the call has returned the error and no
\* enumerator ran.
C22_Witness ==
    /\ phase = "returned"
    /\ Len(tsconfig_files) = 2
    /\ FailedRequests = {2}
    /\ Cardinality(RequestOutcome(1).packages) = 2
    /\ result.tag = "Err"
    /\ Enumerations = 0

\* The tsconfig.json of package foo: the path the enumerator loads it
\* from, the file on the disk, and what loading it gives.
FooConfigPath == Join(monorepo_root, PackageDir("foo") \o <<tsconfig_json>>)

FooConfigFile == FileAt(disk.files, Absolute(FooConfigPath))

FooConfigLoad ==
    read_json_from_file(FooConfigPath, FooConfigFile, "TypescriptConfig")

\* A flag of the compilerOptions of a document, false when the document
\* has no compilerOptions or the compilerOptions have no such flag.
FlagOf(document, flag) ==
    /\ "compilerOptions" \in DOMAIN document
    /\ flag \in DOMAIN document.compilerOptions
    /\ document.compilerOptions[flag]

\* C23. Loading a project configuration fails, with an error that carries
\* the path of the file and the cause (open, read, parse), exactly when
\* the file cannot be opened, cannot be read or does not decode; otherwise
\* it succeeds with the include list of the document and with every flag
\* the document lacks equal to false. The Estimate enumeration of the
\* package fails to build its walker exactly in the failing cases.
C23_LoadingAConfiguration ==
    (calculation = "Estimate" /\ phase = "returned" /\ to_enumerate # {}) =>
        \E load \in {FooConfigLoad} :
            /\ ~load.ok <=>
                   \/ FooConfigFile.state \in {"absent", "unreadable", "malformed"}
                   \/ "include" \notin DOMAIN FooConfigFile.value
            /\ ~load.ok =>
                   /\ load.path = FooConfigPath
                   /\ load.kind =
                          CASE FooConfigFile.state = "absent" -> "Open"
                            [] FooConfigFile.state = "unreadable" -> "Read"
                            [] OTHER -> "Parse"
                   /\ result.tag = "Err" /\ result.kind = "BuildWalker"
            /\ load.ok =>
                   /\ load.value.include = FooConfigFile.value.include
                   /\ load.value.compiler_options.allow_js
                          = FlagOf(FooConfigFile.value, "allowJs")
                   /\ load.value.compiler_options.resolve_json_module
                          = FlagOf(FooConfigFile.value, "resolveJsonModule")
                   /\ ~(result.tag = "Err" /\ result.kind = "BuildWalker")

\* A configuration with compilerOptions that hold allowJs alone was
\* loaded: resolveJsonModule is false, and the call returned a mapping.
C23_Witness ==
    /\ calculation = "Estimate"
    /\ phase = "returned"
    /\ result.tag = "Ok"
    /\ FooConfigFile.state = "json"
    /\ "compilerOptions" \in DOMAIN FooConfigFile.value
    /\ DOMAIN FooConfigFile.value.compilerOptions = {"allowJs"}
    /\ FooConfigLoad.ok
    /\ FooConfigLoad.value.compiler_options.allow_js
    /\ ~FooConfigLoad.value.compiler_options.resolve_json_module

\* The directory listing of package foo.
FooEntries == DirEntries(disk, CanonRoot \o PackageDir("foo"))

\* C24. Estimate mode: an error of the walk is never filtered out or
\* turned into a shorter list. When the walk of the package yields an
\* error for an entry, the enumeration of the package fails with the walk
\* error and the call returns that error, whatever the patterns and the
\* other entries are.
C24_WalkErrorsFail ==
    (/\ calculation = "Estimate"
     /\ phase = "returned"
     /\ FooConfigLoad.ok
     /\ \E i \in 1..Len(FooEntries) : ~FooEntries[i].ok) =>
        /\ result = [tag |-> "Err", kind |-> "Walk"]
        /\ \A p \in to_enumerate : job[p].result = result

\* The walk yielded a file the patterns match and then an error: the call
\* returned the walk error, not the list of the one file.
C24_Witness ==
    /\ calculation = "Estimate"
    /\ phase = "returned"
    /\ FooConfigLoad.ok
    /\ FooConfigLoad.value.include = <<G_src_all>>
    /\ FooEntries = <<[ok |-> TRUE, path |-> F_a_ts], [ok |-> FALSE]>>
    /\ result = [tag |-> "Err", kind |-> "Walk"]

\* C25. Termination of the aggregation: with a fair scheduling of the
\* workers the call eventually returns unless a worker is blocked for ever
\* on a compiler that never exits, also after one worker has failed while
\* others were running; and from the moment a worker waits for a compiler
\* that never exits, the call never returns: nothing times out, nothing is
\* cancelled.
C25_ReturnsUnlessACompilerHangs ==
    /\ <>(phase = "returned") \/ <>[](BlockedWorkers # {})
    /\ [](BlockedWorkers # {} => [](phase # "returned"))

\* C25 happens: one worker has failed while another is still running, and
\* the compiler of a third never exits.
C25_Witness ==
    /\ phase = "aggregating"
    /\ BlockedWorkers # {}
    /\ \E p \in to_enumerate :
           job[p].state = "done" /\ job[p].result.tag = "Err"
    /\ \E p \in to_enumerate \ BlockedWorkers : job[p].state = "running"

\* C26. Frame of the aggregation: no step taken while the call aggregates
\* changes the manifest index, the closure set, the arguments or the
\* disk; a step changes the outcome of at most one package, never one that
\* has ended; and the entry of a package in the returned mapping is what
\* the worker of that package wrote.
C26_WorkersWriteOnlyTheirEntry ==
    [][phase = "aggregating" =>
          /\ manifests' = manifests
          /\ to_enumerate' = to_enumerate
          /\ disk' = disk
          /\ tsconfig_files' = tsconfig_files
          /\ monorepo_root' = monorepo_root
          /\ DOMAIN job' = to_enumerate
          /\ \A p \in to_enumerate :
                 job'[p] # job[p] =>
                     /\ job[p].state # "done"
                     /\ \A q \in to_enumerate \ {p} : job'[q] = job[q]
          /\ (phase' = "returned" /\ result'.tag = "Ok") =>
                 \A p \in to_enumerate :
                     result'.map[p.scoped_package_name] = job[p].result.files
    ]_vars

\* C26 happens: the worker of bar ends after the worker of foo has written
\* another list, while the worker of baz runs.
C26_Witness ==
    /\ phase = "aggregating"
    /\ Len(arrival) = 2
    /\ arrival[1].scoped_package_name = "foo"
    /\ arrival[2].scoped_package_name = "bar"
    /\ job[arrival[1]].result.tag = "Ok"
    /\ job[arrival[2]].result.tag = "Ok"
    /\ job[arrival[1]].result # job[arrival[2]].result
    /\ \E p \in to_enumerate :
           p.scoped_package_name = "baz" /\ job[p].state = "running"

\* The configuration file of a package, as the call names it and as the
\* disk holds it.
ConfigPathOf(p) == Join(monorepo_root, p.tsconfig_file)

ConfigFileOf(p) == FileAt(disk.files, Absolute(ConfigPathOf(p)))

\* The configuration of the package is a JSON document without include.
LacksInclude(p) ==
    /\ ConfigFileOf(p).state = "json"
    /\ "include" \notin DOMAIN ConfigFileOf(p).value

\* C27. Estimate mode: a configuration without include does not load as
\* an empty include list. Loading it fails with the parse error of its
\* path; the enumeration of its package, once it has ended, has failed to
\* build its walker; and a call whose closure holds such a package never
\* returns a mapping.
C27_MissingIncludeFailsTheCall ==
    calculation = "Estimate" =>
        \A p \in to_enumerate :
            LacksInclude(p) =>
                /\ read_json_from_file(ConfigPathOf(p), ConfigFileOf(p),
                                       "TypescriptConfig")
                       = [ok |-> FALSE, kind |-> "Parse", path |-> ConfigPathOf(p)]
                /\ job[p].state = "done" =>
                       job[p].result = [tag |-> "Err", kind |-> "BuildWalker"]
                /\ phase = "returned" => result.tag = "Err"

\* C27 happens: foo and bar were enumerated, then baz, whose configuration
\* has compilerOptions and no include; the call returned the error.
C27_Witness ==
    /\ calculation = "Estimate"
    /\ phase = "returned"
    /\ Len(arrival) = 3
    /\ LacksInclude(arrival[3])
    /\ job[arrival[1]].result.tag = "Ok"
    /\ job[arrival[2]].result.tag = "Ok"
    /\ result = [tag |-> "Err", kind |-> "BuildWalker"]

\* Roots the two functions of path.rs are compared on: the root as the
\* caller may give it, the canonical root, and directories that are no
\* root of the monorepo.
ProbeRoots ==
    RootForms \cup {CanonRoot, Cwd, <<RootDir>>, <<>>,
                    <<<<"s", "r", "c">>>>, PackageDir("foo")}

\* C28. Exact mode: the filter and the rebasing agree. For every root and
\* every path the compiler printed, is_monorepo_file holds exactly when
\* remove_relative_path_prefix_from_absolute_path returns a path; so no
\* enumeration ends with the PrefixNotFound error.
C28_FilterAgreesWithRebase ==
    (calculation = "Exact" /\ phase = "returned") =>
        /\ \A root \in ProbeRoots : \A i \in 1..Len(FooLines) :
               is_monorepo_file(root, FooLines[i])
                   <=> remove_relative_path_prefix_from_absolute_path(
                           root, FooLines[i]).ok
        /\ \A p \in to_enumerate :
               job[p].result.tag = "Err" => job[p].result.inner # "StripPrefix"

\* C28 happens: the compiler printed a file outside the root, under a
\* directory named as the root is, and a file of the package; the first
\* was filtered out and the second rebased.
C28_Witness ==
    /\ calculation = "Exact"
    /\ phase = "returned"
    /\ FooRun = TscOk(<<L_usr_mono, L_foo_a_ts>>)
    /\ is_monorepo_file(RelativeRoot, FooLines[1])
    /\ ~is_monorepo_file(CanonRoot, FooLines[1])
    /\ result.tag = "Ok"
    /\ result.map["foo"] = <<PackageDir("foo") \o F_a_ts>>

\* The path of a file of package foo as the walk yields it: the root as
\* the caller gave it, the package directory, the file.
WalkedPath(file) == Join(monorepo_root, PackageDir("foo") \o file)

RemovePrefixCall(entry_point, prefix, absolute_path) ==
    IF entry_point = "lib"
    THEN lib_remove_relative_path_prefix_from_absolute_path(prefix, absolute_path)
    ELSE remove_relative_path_prefix_from_absolute_path(prefix, absolute_path)

\* The paths the compilers of the disk print, and a path with two
\* ancestors named as the relative root is.
PrintedPaths ==
    UNION { LET ls == Lines(disk.tsc[dir].stdout)
            IN  { PathFromStr(ls[i]) : i \in 1..Len(ls) } : dir \in DOMAIN disk.tsc }
    \cup {CanonRoot \o <<<<"a">>>> \o RelativeRoot \o <<<<"b">>>>}

\* C30. For every prefix and every path: when ancestors of the path end
\* with the prefix, the function returns the part of the path after the
\* longest of them; when none does, it returns the PrefixNotFound error
\* with the prefix and the path.
C30_DeepestAncestorOrPrefixNotFound ==
    \A prefix \in ProbeRoots : \A path \in PrintedPaths :
        LET matching == { a \in Ancestors(path) : PathEndsWith(a, prefix) }
            returned == RemovePrefixCall(entry, prefix, path)
        IN  IF matching = {}
            THEN returned = [ok |-> FALSE, kind |-> "PrefixNotFound",
                             prefix |-> prefix, absolute_path |-> path]
            ELSE /\ "path" \in DOMAIN returned
                 /\ \E a \in matching : a \o returned.path = path
                 /\ \A a \in matching :
                        Len(returned.path) <= Len(path) - Len(a)

====
